---- MODULE Spec2Model ----
(***************************************************************************)
(* Model of the QRNG core of qrng-cryptographic-security:                  *)
(*   - qrng/quantum_rng.py : raw-bit cache, _request_bits, the Von Neumann  *)
(*     extractor and the fixed-length extraction loop (get_bit_string);    *)
(*   - qrng/__init__.py    : the package-level get_bit_string and its own   *)
(*     module state;                                                       *)
(*   - module2_analysis.py, crypto/key_generation.py,                      *)
(*     qrng/noise_bias_analysis.py : the statistical scoring functions.    *)
(* Bitstrings are sequences over {0,1}.  Floats that decide control flow   *)
(* are exact rationals <<num, den>>.                                       *)
(***************************************************************************)
EXTENDS Integers, Sequences, FiniteSets, TLC

\* ------------------------------------------------------------------ bounds
\* largest n_bits passed to get_raw_bit_string / get_bit_string by a caller
MaxN == 2
\* most negative n_bits tried is -MaxNeg
MaxNeg == 1
\* largest n passed to the package-level qrng.get_bit_string
MaxPkgN == 5
\* iterations of the extraction loop that one call is followed through
MaxIters == 3
\* a candidate for the maximum number of loop iterations before a stall is
\* reported
StallLimit == 2
\* longest bitstring handed to a pure function
MaxLen == 6
\* longest bitstring handed to the p-value tests
MaxLongLen == 100
\* most values in a list handed to the trial reduction
MaxValues == 3
\* the metric values are 0, 1/2, ..., MaxMetric/2
MaxMetric == 3
\* most trials of one run_trials call
MaxTrials == 2
\* the bit source returns 0 or 2, 4, ..., 2 * MaxHalfBits bits
MaxHalfBits == 2
\* most generate_qrng_key calls of one program execution
MaxKeyCalls == 2
\* the _request_bits calls that fill one key (64 in the code), scaled down
ScaledKeyRequests == 2
\* most shots one of the two interleaved callers needs for its request
MaxCallerShots == 2
\* most get_raw_bit_string calls of one of the two interleaved callers
MaxCallerCalls == 1
\* largest raw_n_bits handed to get_extracted_bits_true
MaxRawN == 4
\* longest key or ciphertext, in bytes, handed to the avalanche functions
MaxBytes == 2
\* longest key, in bytes, of an avalanche experiment
MaxAvKeyBytes == 1
\* most trials of one avalanche experiment
MaxAvTrials == 2

\* --------------------------------------------------------- program constants
DEFAULT_QUBITS == 8
SAFETY_FACTOR == 4
PKG_QUBITS == 4
CRITICAL_MILLI == 3841
CI_Z_MILLI == 1960
BYTE_BITS == 8
IV_BYTES == 16
KEY_SIZE == 256

\* ------------------------------------------------------------------ helpers
Max(a, b) == IF a >= b THEN a ELSE b
Min(a, b) == IF a <= b THEN a ELSE b

\* math.ceil(a / b) for a >= 0, b > 0
CeilDiv(a, b) == (a + b - 1) \div b

RECURSIVE Gcd(_, _)
Gcd(a, b) == IF b = 0 THEN a ELSE Gcd(b, a % b)

\* a rational in lowest terms
Rat(n, d) == LET g == Gcd(n, d) IN IF g = 0 THEN <<0, 1>> ELSE <<n \div g, d \div g>>
RatLess(p, q) == p[1] * q[2] < q[1] * p[2]

\* Python slice bounds: s[:n] ends, and s[n:] starts, at this 0-based offset
PySliceIndex(n, len) == IF n < 0 THEN Max(len + n, 0) ELSE Min(n, len)
\* s[:n]
SlicePrefix(s, n) == SubSeq(s, 1, PySliceIndex(n, Len(s)))
\* a slice that takes nothing off the front
SliceKeepingAll(s, n) == s
\* s[n:]
SliceSuffix(s, n) == SubSeq(s, PySliceIndex(n, Len(s)) + 1, Len(s))

\* s[::-1]
Reverse(s) == [i \in 1..Len(s) |-> s[Len(s) + 1 - i]]

\* ---- IEEE-754 binary64, round to nearest even.  A positive double is
\* <<e, m>>: m holds its 53 significant bits, m[1] = 1, and its value is
\* (0.m[1]m[2]...m[53])_2 * 2^e.  Zero is <<0, <<>>>>.
MANT_BITS == 53
FloatZero == <<0, <<>>>>
Zeros(k) == [i \in 1..k |-> 0]
FloatHalf == <<0, <<1>> \o Zeros(MANT_BITS - 1)>>

RECURSIVE PowMod2(_, _)
\* 2^k mod b
PowMod2(k, b) ==
    IF k = 0 THEN 1 % b
    ELSE IF k % 2 = 0 THEN LET h == PowMod2(k \div 2, b) IN (h * h) % b
    ELSE (2 * PowMod2(k - 1, b)) % b

\* the remainder of the long division r / b (0 <= r < b) after k quotient bits
DivRem(r, b, k) == (r * PowMod2(k, b)) % b

\* k quotient bits of r / b (0 <= r < b) by long division, and the remainder
DivBits(r, b, k) ==
    <<<<>> \o [i \in 1..k |-> IF 2 * DivRem(r, b, i - 1) >= b THEN 1 ELSE 0],
      DivRem(r, b, k)>>

\* the bit string plus one unit in its last place (all ones wrap to zeros)
IncBits(m) ==
    IF \A i \in 1..Len(m) : m[i] = 1 THEN Zeros(Len(m))
    ELSE LET k == CHOOSE i \in 1..Len(m) :
                      m[i] = 0 /\ \A h \in (i + 1)..Len(m) : m[h] = 1
         IN  SubSeq(m, 1, k - 1) \o <<1>> \o Zeros(Len(m) - k)

\* <<e, m>> rounded up by one unit in the last place when `up`
RoundUpIf(e, m, up) ==
    IF ~up THEN <<e, m>>
    ELSE IF m = [i \in 1..Len(m) |-> 1] THEN <<e + 1, <<1>> \o Zeros(Len(m) - 1)>>
    ELSE <<e, IncBits(m)>>

\* the double nearest to 0.f (a binary fraction given by all its bits)
FloatOfFraction(f) ==
    IF \A i \in 1..Len(f) : f[i] = 0 THEN FloatZero
    ELSE LET j    == CHOOSE i \in 1..Len(f) : f[i] = 1 /\ \A h \in 1..(i - 1) : f[h] = 0
             last == j + MANT_BITS - 1
         IN  IF last >= Len(f)
             THEN <<1 - j, SubSeq(f, j, Len(f)) \o Zeros(last - Len(f))>>
             ELSE LET kept   == SubSeq(f, j, last)
                      guard  == f[last + 1]
                      sticky == \E i \in (last + 2)..Len(f) : f[i] = 1
                  IN  RoundUpIf(1 - j, kept, guard = 1 /\ (sticky \/ f[last] = 1))

RECURSIVE FloatDivFrom(_, _, _)
\* a / b * 2^e for a, b > 0, correctly rounded
FloatDivFrom(a, b, e) ==
    IF a >= b THEN FloatDivFrom(a, 2 * b, e + 1)
    ELSE IF 2 * a < b THEN FloatDivFrom(2 * a, b, e - 1)
    ELSE LET q == DivBits(a, b, MANT_BITS)
         IN  RoundUpIf(e, q[1], 2 * q[2] > b \/ (2 * q[2] = b /\ q[1][MANT_BITS] = 1))

\* the float a / b of two small non-negative integers, b > 0
FloatDiv(a, b) == IF a = 0 THEN FloatZero ELSE FloatDivFrom(a, b, 0)

\* abs(x - 0.5) for a double 0 <= x <= 1
FloatAbsMinusHalf(x) ==
    IF x = FloatZero \/ x[1] = 1 THEN FloatHalf
    ELSE IF x[1] = 0
    THEN \* 0.5 <= x < 1: clearing the leading bit is exact
         FloatOfFraction(<<0>> \o SubSeq(x[2], 2, MANT_BITS))
    ELSE \* x < 0.5: 0.5 - x on the fixed-point bits of x, then rounded
         LET f == Zeros(0 - x[1]) \o x[2]
             c == [i \in 1..(Len(f) - 1) |-> 1 - f[i + 1]]
         IN  FloatOfFraction(<<0>> \o IncBits(c))

\* a >= b for two bit strings of one length, most significant bit first
BitsGeq(a, b) ==
    LET differ == {i \in 1..Len(a) : a[i] # b[i]}
    IN  differ = {} \/ LET first == CHOOSE i \in differ : \A h \in differ : i <= h
                       IN  a[first] > b[first]

\* x >= y for two non-negative doubles
FloatGeq(x, y) ==
    IF y = FloatZero THEN TRUE
    ELSE IF x = FloatZero THEN FALSE
    ELSE IF x[1] # y[1] THEN x[1] > y[1]
    ELSE BitsGeq(x[2], y[2])

RECURSIVE Pow2(_)
Pow2(k) == IF k = 0 THEN 1 ELSE 2 * Pow2(k - 1)

\* Exact intermediate results are natural numbers kept as limbs, least
\* significant first: a 53-bit mantissa fits in four limbs of 14 bits, and
\* the column sums of a product of two of them fit in a 32-bit integer.
LimbBits == MANT_BITS \div 4 + 1
LimbBase == Pow2(LimbBits)

RECURSIVE BitsValue(_)
\* the natural number of a short bit string, most significant bit first
BitsValue(b) ==
    IF b = <<>> THEN 0
    ELSE 2 * BitsValue(SubSeq(b, 1, Len(b) - 1)) + b[Len(b)]

\* the limbs of a bit string
Limbs(bits) ==
    LET pad == (LimbBits - (Len(bits) % LimbBits)) % LimbBits
        p   == Zeros(pad) \o bits
    IN  [i \in 1..(Len(p) \div LimbBits) |->
            BitsValue(SubSeq(p, Len(p) - i * LimbBits + 1,
                             Len(p) - (i - 1) * LimbBits))]

Limb(a, i) == IF i <= Len(a) THEN a[i] ELSE 0

\* the n low bits of a number, most significant first
BitsOf(a, n) ==
    [i \in 1..n |-> (Limb(a, (n - i) \div LimbBits + 1)
                        \div Pow2((n - i) % LimbBits)) % 2]

RECURSIVE BigAddFrom(_, _, _, _)
BigAddFrom(a, b, i, carry) ==
    IF i > Len(a) /\ i > Len(b)
    THEN IF carry = 0 THEN <<>> ELSE <<carry>>
    ELSE LET s == Limb(a, i) + Limb(b, i) + carry
         IN  <<s % LimbBase>> \o BigAddFrom(a, b, i + 1, s \div LimbBase)

BigAdd(a, b) == BigAddFrom(a, b, 1, 0)

RECURSIVE BigSubFrom(_, _, _, _)
BigSubFrom(a, b, i, borrow) ==
    IF i > Len(a) THEN <<>>
    ELSE LET d == Limb(a, i) - Limb(b, i) - borrow
         IN  IF d < 0 THEN <<d + LimbBase>> \o BigSubFrom(a, b, i + 1, 1)
             ELSE <<d>> \o BigSubFrom(a, b, i + 1, 0)

\* a - b for a >= b
BigSub(a, b) == BigSubFrom(a, b, 1, 0)

BigGeq(a, b) ==
    LET differ == {i \in 1..Max(Len(a), Len(b)) : Limb(a, i) # Limb(b, i)}
    IN  differ = {} \/ LET top == CHOOSE i \in differ : \A h \in differ : h <= i
                       IN  Limb(a, top) > Limb(b, top)

BigIsZero(a) == \A i \in 1..Len(a) : a[i] = 0

RECURSIVE ColumnFrom(_, _, _, _)
\* the sum of a[i] * b[k + 1 - i] over i..Len(a)
ColumnFrom(a, b, k, i) ==
    IF i > Len(a) THEN 0
    ELSE Limb(a, i) * (IF k + 1 - i >= 1 THEN Limb(b, k + 1 - i) ELSE 0)
            + ColumnFrom(a, b, k, i + 1)

RECURSIVE BigMulFrom(_, _, _, _)
BigMulFrom(a, b, k, carry) ==
    IF k >= Len(a) + Len(b) THEN <<carry>>
    ELSE LET s == ColumnFrom(a, b, k, 1) + carry
         IN  <<s % LimbBase>> \o BigMulFrom(a, b, k + 1, s \div LimbBase)

BigMul(a, b) == BigMulFrom(a, b, 1, 0)

RECURSIVE QuotBits(_, _, _)
\* k quotient bits of r / b (r < b) by long division, followed by one more
\* bit telling whether a remainder is left
QuotBits(r, b, k) ==
    IF k = 0 THEN <<IF BigIsZero(r) THEN 0 ELSE 1>>
    ELSE LET d == BigAdd(r, r)
         IN  IF BigGeq(d, b) THEN <<1>> \o QuotBits(BigSub(d, b), b, k - 1)
             ELSE <<0>> \o QuotBits(d, b, k - 1)

\* the double nearest to 0.f * 2^e
FloatOfScaled(f, e) ==
    LET r == FloatOfFraction(f)
    IN  IF r = FloatZero THEN FloatZero ELSE <<r[1] + e, r[2]>>

\* x * y for two non-negative doubles
FloatMul(x, y) ==
    IF x = FloatZero \/ y = FloatZero THEN FloatZero
    ELSE FloatOfScaled(BitsOf(BigMul(Limbs(x[2]), Limbs(y[2])), 2 * MANT_BITS),
                       x[1] + y[1])

\* x + y for two non-negative doubles
FloatAdd(x, y) ==
    IF x = FloatZero THEN y
    ELSE IF y = FloatZero THEN x
    ELSE LET hi == IF x[1] >= y[1] THEN x ELSE y
             lo == IF x[1] >= y[1] THEN y ELSE x
             d  == hi[1] - lo[1]
         IN  IF d > MANT_BITS + 1 THEN hi
             ELSE FloatOfScaled(BitsOf(BigAdd(Limbs(hi[2] \o Zeros(d)),
                                              Limbs(lo[2])),
                                       MANT_BITS + d + 1),
                                hi[1] + 1)

\* x / y for two positive doubles
FloatQuot(x, y) ==
    LET a   == Limbs(x[2])
        b   == Limbs(y[2])
        top == BigGeq(a, b)
        r   == IF top THEN BigSub(a, b) ELSE a
    IN  FloatOfScaled(<<IF top THEN 1 ELSE 0>> \o QuotBits(r, b, MANT_BITS + 2),
                      x[1] - y[1] + 1)

\* the double of a small non-negative integer
FloatOfInt(n) == FloatDiv(n, 1)

\* int(x) for a non-negative double below 2^31
FloatToInt(x) ==
    IF x = FloatZero \/ x[1] <= 0 THEN 0
    ELSE BitsValue(SubSeq(x[2], 1, x[1]))

\* max(x, y) as Python's max: y only when it is greater
FloatMax(x, y) == IF FloatGeq(x, y) THEN x ELSE y

RECURSIVE JoinReversed(_)
\* "".join(s[::-1] for s in mem_list)
JoinReversed(mem) ==
    IF mem = <<>> THEN <<>> ELSE Reverse(Head(mem)) \o JoinReversed(Tail(mem))

\* ------------------------------------------------- the external raw source
\* What a backend run can answer: a memory list of one of these kinds, or a
\* failure.  Shot strings have one character per qubit of the circuit.
ShotKinds == {"zeros", "alt", "one"}
Outcomes == ShotKinds \cup {"raise"}

\* the shot string of a kind: idx is the shot's place in the memory list
ShotString(kind, idx, width) ==
    [i \in 1..width |->
        CASE kind = "zeros" -> 0
          [] kind = "alt"   -> (i + 1) % 2
          [] kind = "one"   -> IF idx = 1 /\ i = width THEN 1 ELSE 0]

\* result.get_memory(): num_shots shot strings
MemList(kind, shots, width) == [idx \in 1..shots |-> ShotString(kind, idx, width)]

\* ---------------------------------------------------------------- extractor
RECURSIVE VNFrom(_, _)
\* the extractor with a window that advances by one bit
VNFromOverlapping(bits, i) ==
    IF i >= Len(bits) - 1 THEN <<>>
    ELSE LET pair == SubSeq(bits, i + 1, i + 2)
             emit == IF pair = <<0, 1>> THEN <<0>>
                     ELSE IF pair = <<1, 0>> THEN <<1>>
                     ELSE <<>>
         IN  emit \o VNFrom(bits, i + 1)

\* the loop body of von_neumann_extractor from 0-based index i on
VNFrom(bits, i) ==
    IF i >= Len(bits) - 1 THEN <<>>
    ELSE LET pair == SubSeq(bits, i + 1, i + 2)
             emit == IF pair = <<0, 1>> THEN <<0>>
                     ELSE IF pair = <<1, 0>> THEN <<1>>
                     ELSE <<>>
         IN  emit \o VNFrom(bits, i + 2)

von_neumann_extractor(bits) == VNFrom(bits, 0)

\* ------------------------------------------------------------------- state
VARIABLES
    service,      \* quantum_rng.service: "none" or "ibm" (a runtime service)
    backend,      \* quantum_rng._backend: "none", "ibm" or "aer"
    circuit,      \* quantum_rng._circuit: 0 (None) or its number of qubits
    bitCache,     \* quantum_rng._bitCache
    pkgService,   \* qrng.service
    pkgBackend,   \* qrng._backend
    pkgCircuit,   \* qrng._circuit
    pkgBitCache,  \* qrng._bitCache
    pc,           \* where the running call stands
    frame,        \* locals of the running call
    result,       \* what the last finished call gave its caller
    obs,          \* history of the running / last call and of the cache
    fnIn,         \* the bitstring handed to a pure function
    fnCall,       \* the pure function last applied to fnIn
    fnOut,        \* what it gave
    rt,           \* module2_analysis.run_trials: its locals and what it stored
    av,           \* the avalanche experiment of crypto/aes_*.py
    cc,           \* two callers of get_raw_bit_string running statement by statement
    kg            \* crypto/key_generation.py: its globals and what it called

coreVars == <<service, backend, circuit, bitCache, pkgService, pkgBackend,
              pkgCircuit, pkgBitCache, pc, frame, result, obs>>
fnVars == <<fnIn, fnCall, fnOut>>
appVars == <<rt, av, cc, kg>>
vars == <<coreVars, fnVars, appVars>>

NoFrame ==
    [caller |-> "none", rawN |-> 0, nBits |-> 0, extracted |-> <<>>,
     rawUsed |-> 0, est |-> FloatZero, iters |-> 0, returnStats |-> FALSE]

NoResult == [kind |-> "none", bits |-> <<>>, err |-> "none", tuple |-> <<>>]
Returned(bits) == [NoResult EXCEPT !.kind = "ok", !.bits = bits]
Raised(err) == [NoResult EXCEPT !.kind = "raise", !.err = err]
\* a returned tuple; bits is its first component
ReturnedTuple(t) == [NoResult EXCEPT !.kind = "ok", !.bits = t[1], !.tuple = t]

\* run_trials not called yet
NoRun ==
    [pc |-> "idle", trials |-> 0, bit_length |-> 0, t |-> 0, calls |-> <<>>,
     entropy_list |-> <<>>, chi_list |-> <<>>, freq_list |-> <<>>,
     runs_list |-> <<>>, block_list |-> <<>>, apen_list |-> <<>>,
     chi_pass |-> 0, freq_pass |-> 0, runs_pass |-> 0, block_pass |-> 0,
     apen_pass |-> 0, rows |-> <<>>, verdicts |-> <<>>, summary |-> <<>>,
     err |-> "none"]

\* no avalanche experiment started yet
NoAvalanche ==
    [pc |-> "idle", key |-> <<>>, iv |-> <<>>, plaintext |-> "", ciphertext1 |-> <<>>,
     trials |-> 0, t |-> 0, avalanche_list |-> <<>>, bit_index |-> 0,
     flipped_key |-> <<>>, ciphertext2 |-> <<>>,
     key0 |-> <<>>, baseline |-> <<>>, plaintext0 |-> "",
     enc |-> [key |-> <<>>, iv |-> <<>>, plaintext |-> ""], compared |-> <<>>,
     aggregated |-> <<>>, mean |-> <<0, 1>>, std_squared |-> <<0, 1>>, err |-> "none"]

Callers == {1, 2}

\* no caller has started; every buffer is empty
NoCallers ==
    [set_up |-> FALSE, shared |-> FALSE,
     cache |-> [c \in Callers |-> <<>>], produced |-> [c \in Callers |-> <<>>],
     serial |-> 0,
     pc |-> [c \in Callers |-> "idle"], n_bits |-> [c \in Callers |-> 0],
     raw |-> [c \in Callers |-> <<>>], calls |-> [c \in Callers |-> 0],
     needed_shots |-> [c \in Callers |-> 0], loaded |-> [c \in Callers |-> <<>>],
     mem |-> [c \in Callers |-> <<>>],
     returned |-> [c \in Callers |-> <<>>]]

\* key_generation just imported
NoKeygen ==
    [IBM_INITIALIZED |-> FALSE, init_calls |-> 0, provider_calls |-> 0,
     backend_calls |-> 0, key_calls |-> 0, paths |-> {}]

InitCore ==
    /\ service = "none"
    /\ backend = "none"
    /\ circuit = 0
    /\ bitCache = <<>>
    /\ pkgService = "none"
    /\ pkgBackend = "none"
    /\ pkgCircuit = 0
    /\ pkgBitCache = <<>>
    /\ pc = "idle"
    /\ frame = NoFrame
    /\ result = NoResult
    /\ obs = [op |-> "none", n |-> 0, useExtractor |-> FALSE, srcCalls |-> 0,
              hwFailed |-> FALSE, appended |-> <<>>, cacheAtEntry |-> <<>>,
              pending |-> <<>>, fifoOk |-> TRUE, iters |-> 0,
              accum |-> <<>>, simRaised |-> FALSE]
    /\ rt = NoRun
    /\ av = NoAvalanche
    /\ cc = NoCallers
    /\ kg = NoKeygen

\* numbers: an exact rational num/den ("rat"); the binary entropy of the
\* proportion num/den ("H"); erfc(sqrt(num/den)) ("erfc"); sqrt(num/den)
\* ("sqrt"); not-a-number ("nan")
Num(tag, n, d) == LET q == Rat(n, d) IN [tag |-> tag, num |-> q[1], den |-> q[2]]
Zero == Num("rat", 0, 1)
NaN == [tag |-> "nan", num |-> 0, den |-> 1]

NoOut ==
    [kind |-> "none", val |-> Zero, passed |-> FALSE, bits |-> <<>>, err |-> "none",
     ci |-> Zero, n |-> 0, arg |-> <<>>]
OutValue(v, ok) == [NoOut EXCEPT !.kind = "ok", !.val = v, !.passed = ok]
OutBits(b) == [NoOut EXCEPT !.kind = "ok", !.bits = b]
OutRaise(e) == [NoOut EXCEPT !.kind = "raise", !.err = e]

Init ==
    /\ InitCore
    /\ fnIn = <<>>
    /\ fnCall = "none"
    /\ fnOut = NoOut

\* ----------------------------------------------------- provider and backend
\* set_provider_as_IBMQ: connected iff a token is given and the service
\* constructor does not raise
ProviderAfter(connected) == IF connected THEN "ibm" ELSE "none"

\* set_backend_interactive / set_backend: the simulator without a service,
\* else the user's pick (any failure of the selection picks the simulator)
BackendAfter(svc, pick) == IF svc = "none" THEN "aer" ELSE pick

SetProviderAsIBMQ(connected) ==
    /\ pc = "idle"
    /\ service' = ProviderAfter(connected)
    /\ UNCHANGED <<fnVars, appVars, backend, circuit, bitCache, pkgService, pkgBackend,
                   pkgCircuit, pkgBitCache, pc, frame, result, obs>>

\* set_backend_interactive(): the backend chosen, then _create_circuit(8).
\* The simulator is imported only when it is chosen, and a missing qiskit_aer
\* raises before anything is assigned; a failing _create_circuit raises after
\* _backend has been assigned and leaves _circuit as it was.
SetBackendInteractiveResult(svc, bk, circ, pick, aer, circ_ok) ==
    LET chosen == BackendAfter(svc, pick)
    IN  IF chosen = "aer" /\ ~aer
        THEN [backend |-> bk, circuit |-> circ, raised |-> TRUE,
              err |-> "ImportError"]
        ELSE IF ~circ_ok
        THEN [backend |-> chosen, circuit |-> circ, raised |-> TRUE,
              err |-> "CircuitError"]
        ELSE [backend |-> chosen, circuit |-> DEFAULT_QUBITS, raised |-> FALSE,
              err |-> "none"]

PkgSetProviderAsIBMQ(connected) ==
    /\ pc = "idle"
    /\ pkgService' = ProviderAfter(connected)
    /\ UNCHANGED <<fnVars, appVars, service, backend, circuit, bitCache, pkgBackend,
                   pkgCircuit, pkgBitCache, pc, frame, result, obs>>

\* qrng.set_backend() of the package: the user's pick with a service, else
\* the simulator, whose import fails when qiskit_aer is missing (then
\* _backend and _circuit are left as they were); _create_circuit(4)
PkgSetBackendResult(svc, bk, circ, pick, aer) ==
    LET chosen == BackendAfter(svc, pick)
    IN  IF chosen = "aer" /\ ~aer
        THEN [backend |-> bk, circuit |-> circ, raised |-> TRUE]
        ELSE [backend |-> chosen, circuit |-> PKG_QUBITS, raised |-> FALSE]

\* ------------------------------------------------------------ _request_bits
\* The answers of the outside world to one _request_bits call: the backend
\* picked if the interactive selection runs, whether qiskit_aer can be
\* imported, whether _create_circuit succeeds, and what the hardware run and
\* the simulator run give when they are attempted.
Answers ==
    [pick : {"ibm", "aer"}, aer : BOOLEAN, circ_ok : BOOLEAN, hw : Outcomes,
     sim : Outcomes]

\* _append_memory putting the new shots in front of the cache
AppendMemoryInFront(cache, mem) == JoinReversed(mem) \o cache

\* _append_memory
AppendMemory(cache, mem) == cache \o JoinReversed(mem)

\* quantum_rng._request_bits(num_shots).
\* lines 154-155: set_backend_interactive() when _backend or _circuit is
\* None, whose exception leaves the call; lines 169-178: the IBM run, any
\* exception of which is swallowed; lines 180-186: the simulator run, whose
\* import and run raise to the caller.
RequestBits(svc, bk, circ, cache, shots, ans) ==
    LET needSetup == bk = "none" \/ circ = 0
        setup     == IF needSetup
                     THEN SetBackendInteractiveResult(svc, bk, circ, ans.pick,
                                                      ans.aer, ans.circ_ok)
                     ELSE [backend |-> bk, circuit |-> circ, raised |-> FALSE,
                           err |-> "none"]
        useHw     == ~setup.raised /\ svc # "none" /\ setup.backend = "ibm"
        hwOk      == useHw /\ ans.hw # "raise"
        useSim    == ~setup.raised /\ ~hwOk
        simErr    == IF ~ans.aer THEN "ImportError"
                     ELSE IF ans.sim = "raise" THEN "SimulatorError"
                     ELSE "none"
        raised    == setup.raised \/ (useSim /\ simErr # "none")
        kind      == IF hwOk THEN ans.hw ELSE ans.sim
        mem       == IF raised THEN <<>> ELSE MemList(kind, shots, setup.circuit)
        choseAer  == needSetup /\ BackendAfter(svc, ans.pick) = "aer"
    IN  [backend |-> setup.backend, circuit |-> setup.circuit,
         cache |-> IF raised THEN cache ELSE AppendMemory(cache, mem),
         bits |-> JoinReversed(mem),
         raised |-> raised,
         err |-> IF setup.raised THEN setup.err
                 ELSE IF useSim THEN simErr ELSE "none",
         simRaised |-> useSim /\ simErr # "none",
         hwFailed |-> useHw /\ ~hwOk,
         usedPick |-> needSetup /\ svc # "none",
         usedAer |-> choseAer \/ useSim,
         usedCirc |-> needSetup /\ ~(choseAer /\ ~ans.aer),
         usedHw |-> useHw,
         usedSim |-> useSim /\ ans.aer]

\* one representative of the answers a call does not look at
Relevant(r, ans) ==
    /\ ~r.usedPick => ans.pick = "aer"
    /\ ~r.usedAer => ans.aer
    /\ ~r.usedCirc => ans.circ_ok
    /\ ~r.usedHw => ans.hw = "zeros"
    /\ ~r.usedSim => ans.sim = "zeros"

\* qrng._request_bits(n) of the package: one most-frequent outcome per call;
\* a failed Sampler run is swallowed, the simulator's import and run raise
PkgRequestBits(svc, bk, circ, cache, ans) ==
    LET useHw  == svc # "none" /\ bk = "ibm"
        hwOk   == useHw /\ ans.hw # "raise"
        simErr == IF ~ans.aer THEN "ImportError"
                  ELSE IF ans.sim = "raise" THEN "SimulatorError"
                  ELSE "none"
        raised == ~hwOk /\ simErr # "none"
        kind   == IF hwOk THEN ans.hw ELSE ans.sim
        cache1 == IF raised THEN cache ELSE cache \o ShotString(kind, 1, circ)
    IN  [cache |-> cache1,
         bits |-> IF raised THEN <<>> ELSE ShotString(kind, 1, circ),
         raised |-> raised, err |-> IF ~hwOk THEN simErr ELSE "none",
         simRaised |-> raised, hwFailed |-> useHw /\ ~hwOk,
         usedPick |-> FALSE, usedAer |-> ~hwOk, usedCirc |-> FALSE,
         usedHw |-> useHw, usedSim |-> ~hwOk /\ ans.aer]

\* ------------------------------------------------------- bookkeeping of obs
StartOp(op, n, ext, cache) ==
    [obs EXCEPT !.op = op, !.n = n, !.useExtractor = ext, !.srcCalls = 0,
                !.hwFailed = FALSE, !.appended = <<>>, !.cacheAtEntry = cache,
                !.iters = 0, !.accum = <<>>, !.simRaised = FALSE]

IsPrefix(a, b) == Len(a) <= Len(b) /\ SubSeq(b, 1, Len(a)) = a

\* set_backend_interactive() called on its own
SetBackendInteractive(pick, aer, circ_ok) ==
    /\ pc = "idle"
    /\ service = "none" => pick = "aer"
    /\ LET r == SetBackendInteractiveResult(service, backend, circuit, pick, aer,
                                            circ_ok)
       IN  /\ BackendAfter(service, pick) # "aer" => aer
           /\ r.err = "ImportError" => circ_ok
           /\ backend' = r.backend
           /\ circuit' = r.circuit
           /\ result' = IF r.raised THEN Raised(r.err) ELSE NoResult
    /\ obs' = StartOp("set_backend_interactive", 0, FALSE, bitCache)
    /\ UNCHANGED <<fnVars, appVars, service, bitCache, pkgService, pkgBackend, pkgCircuit,
                   pkgBitCache, pc, frame>>

NSet == (0 - MaxNeg)..MaxN
PkgNSet == (0 - MaxNeg)..MaxPkgN

\* ------------------------------------------------------- get_raw_bit_string
\* needed_shots of one pass of the while loop
NeededShots(n_bits, cacheLen) == Max(1, CeilDiv(n_bits - cacheLen, DEFAULT_QUBITS))

\* the loop condition one bit short
RawLoopContinuesShort(cache, n_bits) == Len(cache) < n_bits - 1

\* `while len(_bitCache) < n_bits`
RawLoopContinues(cache, n_bits) == Len(cache) < n_bits

CallGetRawBitString(n) ==
    /\ pc = "idle"
    /\ pc' = "raw_while"
    /\ frame' = [NoFrame EXCEPT !.caller = "top", !.rawN = n]
    /\ result' = NoResult
    /\ obs' = StartOp("get_raw_bit_string", n, FALSE, bitCache)
    /\ UNCHANGED <<fnVars, appVars, service, backend, circuit, bitCache, pkgService, pkgBackend,
                   pkgCircuit, pkgBitCache>>

\* one pass of `while len(_bitCache) < n_bits`: a _request_bits call
RawRequest ==
    /\ pc = "raw_while"
    /\ RawLoopContinues(bitCache, frame.rawN)
    /\ \E ans \in Answers :
         LET r == RequestBits(service, backend, circuit, bitCache,
                              NeededShots(frame.rawN, Len(bitCache)), ans)
         IN  /\ Relevant(r, ans)
             /\ backend' = r.backend
             /\ circuit' = r.circuit
             /\ bitCache' = r.cache
             /\ obs' = [obs EXCEPT !.srcCalls = @ + 1,
                                   !.hwFailed = @ \/ r.hwFailed,
                                   !.simRaised = r.simRaised,
                                   !.appended = @ \o r.bits,
                                   !.pending = @ \o r.bits]
             /\ IF r.raised
                THEN /\ pc' = "idle"
                     /\ frame' = NoFrame
                     /\ result' = Raised(r.err)
                ELSE UNCHANGED <<pc, frame, result>>
    /\ UNCHANGED <<fnVars, appVars, service, pkgService, pkgBackend, pkgCircuit, pkgBitCache>>

\* the constants of lines 360-362 as the doubles their literals denote
EFFICIENCY_FLOOR == FloatDiv(1, 100)
PRIOR_WEIGHT == FloatDiv(7, 10)
OBSERVED_WEIGHT == FloatDiv(3, 10)

\* the estimate replaced by the yield just observed
EstObservedOnly(est, lo, lr) == IF lr > 0 THEN FloatDiv(lo, lr) ELSE est

\* lines 360-362: est_efficiency after an iteration that drew lr raw bits and
\* got lo out, every operation rounded as the doubles round it:
\*   observed = max(0.01, len(out) / len(raw))
\*   est_efficiency = 0.7 * est_efficiency + 0.3 * observed
EstUpdate(est, lo, lr) ==
    IF lr > 0
    THEN LET observed == FloatMax(EFFICIENCY_FLOOR, FloatDiv(lo, lr))
         IN  FloatAdd(FloatMul(PRIOR_WEIGHT, est),
                      FloatMul(OBSERVED_WEIGHT, observed))
    ELSE est

\* the rest of a loop iteration, with raw_used counting the output instead
AfterRawCountingOutput(f, raw) ==
    LET out == von_neumann_extractor(raw)
    IN  [f EXCEPT !.rawUsed = @ + Len(out),
                  !.extracted = @ \o out,
                  !.est = EstUpdate(@, Len(out), Len(raw))]

\* lines 354-362: the rest of a loop iteration once raw has come back
AfterRaw(f, raw) ==
    LET out == von_neumann_extractor(raw)
    IN  [f EXCEPT !.rawUsed = @ + Len(raw),
                  !.extracted = @ \o out,
                  !.est = EstUpdate(@, Len(out), Len(raw))]

\* lines 318-320: `return raw_bits, extracted_bits`
ExtractedTuple(raw_bits) == <<raw_bits, von_neumann_extractor(raw_bits)>>

\* get_extracted_bits_true, up to its call of get_raw_bit_string
CallGetExtractedBitsTrue(n) ==
    /\ pc = "idle"
    /\ pc' = "raw_while"
    /\ frame' = [NoFrame EXCEPT !.caller = "gebt", !.rawN = n]
    /\ result' = NoResult
    /\ obs' = StartOp("get_extracted_bits_true", n, TRUE, bitCache)
    /\ UNCHANGED <<fnVars, appVars, service, backend, circuit, bitCache, pkgService, pkgBackend,
                   pkgCircuit, pkgBitCache>>

\* line 337: the stats of a call without the extractor
RawStats(n_bits) ==
    [raw_bits_used |-> n_bits, final_bits |-> n_bits, efficiency |-> <<1, 1>>]

\* lines 301-303: cut the first n_bits off the cache and hand them back
RawDequeue ==
    /\ pc = "raw_while"
    /\ ~RawLoopContinues(bitCache, frame.rawN)
    /\ LET raw == SlicePrefix(bitCache, frame.rawN)
       IN  /\ bitCache' = SliceSuffix(bitCache, frame.rawN)
           /\ obs' = [obs EXCEPT
                        !.fifoOk = @ /\ IsPrefix(raw, obs.pending),
                        !.pending = SubSeq(@, Len(raw) + 1, Len(@))]
           /\ IF frame.caller = "gbs"
              THEN /\ pc' = "gbs_while"
                   /\ frame' = AfterRaw(frame, raw)
                   /\ UNCHANGED result
              ELSE /\ pc' = "idle"
                   /\ frame' = NoFrame
                   /\ result' = IF frame.caller = "gebt"
                                THEN ReturnedTuple(ExtractedTuple(raw))
                                ELSE IF frame.caller = "gbs_raw" /\ frame.returnStats
                                THEN ReturnedTuple(<<raw, RawStats(frame.nBits)>>)
                                ELSE Returned(raw)
    /\ UNCHANGED <<fnVars, appVars, service, backend, circuit, pkgService, pkgBackend,
                   pkgCircuit, pkgBitCache>>

\* ----------------------------------------------------------- get_bit_string
\* need_raw = int((remaining / est_efficiency) + DEFAULT_QUBITS * 4): the
\* quotient is a double, the sum with 32 is a double, and int() truncates it
NeedRaw(remaining, est) ==
    FloatToInt(FloatAdd(FloatQuot(FloatOfInt(remaining), est),
                        FloatOfInt(DEFAULT_QUBITS * SAFETY_FACTOR)))

\* an initial estimate at the floor
InitialEstimateAtFloor == EFFICIENCY_FLOOR

\* est_efficiency = 0.30
InitialEstimate == FloatDiv(3, 10)

\* the loop condition with <= for <
LoopContinuesInclusive(extracted, n_bits) == Len(extracted) <= n_bits

\* `while len(extracted) < n_bits`
LoopContinues(extracted, n_bits) == Len(extracted) < n_bits

\* the result without the truncation
FinalBitsUntruncated(extracted, n_bits) == extracted

\* final_bits = extracted[:n_bits]
FinalBits(extracted, n_bits) == SlicePrefix(extracted, n_bits)

\* lines 366-371: the stats of a call with the extractor
Stats(raw_used, n_bits) ==
    [raw_bits_used |-> raw_used, final_bits |-> n_bits,
     efficiency |-> IF raw_used # 0 THEN Rat(n_bits, raw_used) ELSE "None"]

CallGetBitString(n, useExtractor) ==
    /\ pc = "idle"
    /\ result' = NoResult
    /\ obs' = StartOp("get_bit_string", n, useExtractor, bitCache)
    /\ IF useExtractor
       THEN /\ pc' = "gbs_while"
            /\ frame' = [NoFrame EXCEPT !.caller = "gbs", !.nBits = n,
                                        !.est = InitialEstimate]
       ELSE /\ pc' = "raw_while"
            /\ frame' = [NoFrame EXCEPT !.caller = "gbs_raw", !.nBits = n,
                                        !.rawN = n]
    /\ UNCHANGED <<fnVars, appVars, service, backend, circuit, bitCache, pkgService, pkgBackend,
                   pkgCircuit, pkgBitCache>>

\* get_bit_string(n, use_extractor, return_stats=True)
CallGetBitStringWithStats(n, useExtractor) ==
    /\ pc = "idle"
    /\ result' = NoResult
    /\ obs' = StartOp("get_bit_string", n, useExtractor, bitCache)
    /\ IF useExtractor
       THEN /\ pc' = "gbs_while"
            /\ frame' = [NoFrame EXCEPT !.caller = "gbs", !.nBits = n,
                                        !.est = InitialEstimate, !.returnStats = TRUE]
       ELSE /\ pc' = "raw_while"
            /\ frame' = [NoFrame EXCEPT !.caller = "gbs_raw", !.nBits = n,
                                        !.rawN = n, !.returnStats = TRUE]
    /\ UNCHANGED <<fnVars, appVars, service, backend, circuit, bitCache, pkgService, pkgBackend,
                   pkgCircuit, pkgBitCache>>

\* `while len(extracted) < n_bits` taken: size the request and call
\* get_raw_bit_string(need_raw)
GbsLoop ==
    /\ pc = "gbs_while"
    /\ LoopContinues(frame.extracted, frame.nBits)
    /\ frame.iters < MaxIters
    /\ pc' = "raw_while"
    /\ frame' = [frame EXCEPT
                   !.rawN = NeedRaw(frame.nBits - Len(frame.extracted), frame.est),
                   !.iters = @ + 1]
    /\ obs' = [obs EXCEPT !.iters = @ + 1]
    /\ UNCHANGED <<fnVars, appVars, service, backend, circuit, bitCache, pkgService, pkgBackend,
                   pkgCircuit, pkgBitCache, result>>

\* the loop is left: final_bits = extracted[:n_bits]
GbsReturn ==
    /\ pc = "gbs_while"
    /\ ~LoopContinues(frame.extracted, frame.nBits)
    /\ pc' = "idle"
    /\ result' = IF frame.returnStats
                 THEN ReturnedTuple(<<FinalBits(frame.extracted, frame.nBits),
                                      Stats(frame.rawUsed, frame.nBits)>>)
                 ELSE Returned(FinalBits(frame.extracted, frame.nBits))
    /\ frame' = NoFrame
    /\ obs' = [obs EXCEPT !.accum = frame.extracted]
    /\ UNCHANGED <<fnVars, appVars, service, backend, circuit, bitCache, pkgService, pkgBackend,
                   pkgCircuit, pkgBitCache>>

\* ------------------------------------------- qrng.get_bit_string (package)
\* `while len(_bitCache) < n`
PkgLoopContinues(cache, n) == Len(cache) < n

\* qrng.set_backend() called on its own
PkgSetBackend(pick, aer) ==
    /\ pc = "idle"
    /\ pkgService = "none" => pick = "aer"
    /\ BackendAfter(pkgService, pick) # "aer" => aer
    /\ LET r == PkgSetBackendResult(pkgService, pkgBackend, pkgCircuit, pick, aer)
       IN  /\ pkgBackend' = r.backend
           /\ pkgCircuit' = r.circuit
           /\ result' = IF r.raised THEN Raised("ImportError") ELSE NoResult
    /\ obs' = StartOp("pkg_set_backend", 0, FALSE, pkgBitCache)
    /\ UNCHANGED <<fnVars, appVars, service, backend, circuit, bitCache, pkgService,
                   pkgBitCache, pc, frame>>

CallPkgGetBitString(n, pick, aer) ==
    /\ pc = "idle"
    /\ pkgService = "none" => pick = "aer"
    /\ LET init == pkgCircuit = 0 \/ pkgBackend = "none"
           r    == PkgSetBackendResult(pkgService, pkgBackend, pkgCircuit, pick, aer)
       IN  /\ ~init => (pick = "aer" /\ aer)
           /\ BackendAfter(pkgService, pick) # "aer" => aer
           /\ IF init
              THEN pkgBackend' = r.backend /\ pkgCircuit' = r.circuit
              ELSE UNCHANGED <<pkgBackend, pkgCircuit>>
           /\ IF init /\ r.raised
              THEN /\ pc' = "idle"
                   /\ frame' = NoFrame
                   /\ result' = Raised("ImportError")
              ELSE /\ pc' = "pkg_while"
                   /\ frame' = [NoFrame EXCEPT !.caller = "top", !.rawN = n]
                   /\ result' = NoResult
    /\ obs' = StartOp("pkg_get_bit_string", n, FALSE, pkgBitCache)
    /\ UNCHANGED <<fnVars, appVars, service, backend, circuit, bitCache, pkgService, pkgBitCache>>

\* one pass of `while len(_bitCache) < n`: _request_bits(4)
PkgRequest ==
    /\ pc = "pkg_while"
    /\ PkgLoopContinues(pkgBitCache, frame.rawN)
    /\ \E ans \in Answers :
         LET r == PkgRequestBits(pkgService, pkgBackend, pkgCircuit, pkgBitCache, ans)
         IN  /\ Relevant(r, ans)
             /\ pkgBitCache' = r.cache
             /\ obs' = [obs EXCEPT !.srcCalls = @ + 1,
                                   !.hwFailed = @ \/ r.hwFailed,
                                   !.simRaised = r.simRaised,
                                   !.appended = @ \o r.bits]
             /\ IF r.raised
                THEN /\ pc' = "idle"
                     /\ frame' = NoFrame
                     /\ result' = Raised(r.err)
                ELSE UNCHANGED <<pc, frame, result>>
    /\ UNCHANGED <<fnVars, appVars, service, backend, circuit, bitCache, pkgService, pkgBackend,
                   pkgCircuit>>

\* key_generation.py lines 84-95: (key_bytes, qrng_bits, key_entropy), the
\* SHA-256 digest and its entropy kept as terms of the bits they come from
KeyTuple(qrng_bits) ==
    <<[sha256 |-> qrng_bits], qrng_bits, [shannon_entropy_of_sha256 |-> qrng_bits]>>

\* bits = _bitCache[:n]; _bitCache = _bitCache[n:]
PkgDequeue ==
    /\ pc = "pkg_while"
    /\ ~PkgLoopContinues(pkgBitCache, frame.rawN)
    /\ pkgBitCache' = SliceSuffix(pkgBitCache, frame.rawN)
    /\ result' = IF frame.caller = "keygen"
                 THEN ReturnedTuple(KeyTuple(SlicePrefix(pkgBitCache, frame.rawN)))
                 ELSE Returned(SlicePrefix(pkgBitCache, frame.rawN))
    /\ pc' = "idle"
    /\ frame' = NoFrame
    /\ UNCHANGED <<fnVars, appVars, service, backend, circuit, bitCache, pkgService, pkgBackend,
                   pkgCircuit, obs>>

\* ----------------------------------------------------------- specification
\* the core module qrng/quantum_rng.py
Next ==
    \/ \E c \in BOOLEAN : SetProviderAsIBMQ(c)
    \/ \E p \in {"ibm", "aer"}, aer, circ_ok \in BOOLEAN :
         SetBackendInteractive(p, aer, circ_ok)
    \/ \E n \in NSet : CallGetRawBitString(n)
    \/ RawRequest
    \/ RawDequeue
    \/ \E n \in NSet, e \in BOOLEAN : CallGetBitString(n, e)
    \/ GbsLoop
    \/ GbsReturn

Spec == Init /\ [][Next]_vars

\* the two buffers: get_raw_bit_string of the core and get_bit_string of the
\* package qrng, each on its own module state
NextBuffers ==
    \/ \E c \in BOOLEAN : SetProviderAsIBMQ(c)
    \/ \E p \in {"ibm", "aer"}, aer, circ_ok \in BOOLEAN :
         SetBackendInteractive(p, aer, circ_ok)
    \/ \E n \in NSet : CallGetRawBitString(n)
    \/ RawRequest
    \/ RawDequeue
    \/ \E c \in BOOLEAN : PkgSetProviderAsIBMQ(c)
    \/ \E p \in {"ibm", "aer"}, aer \in BOOLEAN : PkgSetBackend(p, aer)
    \/ \E n \in PkgNSet, p \in {"ibm", "aer"}, aer \in BOOLEAN : CallPkgGetBitString(n, p, aer)
    \/ PkgRequest
    \/ PkgDequeue

SpecBuffers == Init /\ [][NextBuffers]_vars

\* ------------------------------------------------ crypto/key_generation.py
\* the bits generate_qrng_key asks for: like the code's 256, a multiple of
\* the bits one _request_bits call of the package appends
ScaledKeyBits == ScaledKeyRequests * PKG_QUBITS

\* the environment of one call: IBM_API_KEY set, the service connects, the
\* backend the user picks at the prompt of quantum_rng.set_backend_interactive
\* and at the prompt of the package's set_backend, qiskit_aer can be imported, and where the
\* initialisation fails besides: in _create_circuit (called by
\* set_backend_interactive) or in get_backend_name.  Of the environments
\* that differ only in what is never looked at (a connection without a
\* token, a prompt without a service) one is kept.
KeygenEnvs ==
    {env \in [token : BOOLEAN, connected : BOOLEAN, pick : {"ibm", "aer"},
              pkg_pick : {"ibm", "aer"}, aer : BOOLEAN,
              fault : {"none", "create_circuit", "get_backend_name"}] :
        /\ ~env.token => (~env.connected /\ env.fault = "none")
        /\ ~env.connected => env.pick = "aer"}

\* the environment of a call that does not run the try block of
\* init_ibm_for_crypto
NoInitEnv(env) == ~env.token /\ ~env.connected /\ env.pick = "aer" /\ env.fault = "none"

\* the try block of init_ibm_for_crypto (lines 51-59) on the core's state:
\* set_provider_as_IBMQ, set_backend_interactive, get_backend_name
InitTry(bk, circ, env) ==
    LET svc    == ProviderAfter(env.connected)
        chosen == BackendAfter(svc, env.pick)
    IN  IF chosen = "aer" /\ ~env.aer
        THEN [service |-> svc, backend |-> bk, circuit |-> circ, raised |-> TRUE]
        ELSE IF env.fault = "create_circuit"
        THEN [service |-> svc, backend |-> chosen, circuit |-> circ, raised |-> TRUE]
        ELSE [service |-> svc, backend |-> chosen, circuit |-> DEFAULT_QUBITS,
              raised |-> env.fault = "get_backend_name"]

\* how an init_ibm_for_crypto call goes
InitPath(initialized, bk, circ, env) ==
    IF initialized THEN "skipped"
    ELSE IF ~env.token THEN "no_token"
    ELSE IF InitTry(bk, circ, env).raised THEN "raised"
    ELSE "ok"

\* the flag set only where the initialisation went through
FlagAfterInitOnSuccess(path) == path \in {"skipped", "ok"}

\* IBM_INITIALIZED after init_ibm_for_crypto has returned
FlagAfterInit(path) == TRUE

\* init_ibm_for_crypto: the module's flag and counters, and the core's
\* service, backend and circuit after the call
InitIbmForCrypto(env) ==
    LET path == InitPath(kg.IBM_INITIALIZED, backend, circuit, env)
        runs == path \in {"ok", "raised"}
        t    == InitTry(backend, circuit, env)
    IN  [kg |-> [kg EXCEPT !.init_calls = @ + 1,
                           !.provider_calls = IF runs THEN @ + 1 ELSE @,
                           !.backend_calls = IF runs THEN @ + 1 ELSE @,
                           !.paths = @ \cup {path},
                           !.IBM_INITIALIZED = FlagAfterInit(path)],
         service |-> IF runs THEN t.service ELSE service,
         backend |-> IF runs THEN t.backend ELSE backend,
         circuit |-> IF runs THEN t.circuit ELSE circuit]

\* init_ibm_for_crypto called on its own
CallInitIbmForCrypto(env) ==
    /\ pc = "idle"
    /\ kg.init_calls < MaxKeyCalls
    /\ env.pkg_pick = "aer"
    /\ kg.IBM_INITIALIZED => (NoInitEnv(env) /\ env.aer)
    /\ LET i == InitIbmForCrypto(env)
       IN  /\ kg' = i.kg
           /\ service' = i.service
           /\ backend' = i.backend
           /\ circuit' = i.circuit
    /\ result' = NoResult
    /\ obs' = StartOp("init_ibm_for_crypto", 0, FALSE, pkgBitCache)
    /\ UNCHANGED <<fnVars, rt, av, cc, bitCache, pkgService, pkgBackend, pkgCircuit,
                   pkgBitCache, pc, frame>>

\* generate_qrng_key up to its call of get_bit_string: the size check,
\* init_ibm_for_crypto, and the entry of the imported get_bit_string with
\* its set_backend() when the package has no backend or circuit yet
CallGenerateQrngKey(key_size, use_ibm, env) ==
    /\ pc = "idle"
    /\ kg.key_calls < MaxKeyCalls
    /\ obs' = StartOp("generate_qrng_key", ScaledKeyBits, FALSE, pkgBitCache)
    /\ IF key_size # KEY_SIZE
       THEN /\ NoInitEnv(env) /\ env.pkg_pick = "aer" /\ env.aer /\ use_ibm
            /\ result' = Raised("ValueError")
            /\ kg' = [kg EXCEPT !.key_calls = @ + 1]
            /\ UNCHANGED <<service, backend, circuit, pkgBackend, pkgCircuit, pc, frame>>
       ELSE LET i    == InitIbmForCrypto(env)
                init == pkgCircuit = 0 \/ pkgBackend = "none"
                r    == PkgSetBackendResult(pkgService, pkgBackend, pkgCircuit,
                                            env.pkg_pick, env.aer)
            IN  /\ ~(use_ibm /\ ~kg.IBM_INITIALIZED) => NoInitEnv(env)
                /\ ~(init /\ pkgService # "none") => env.pkg_pick = "aer"
                /\ IF use_ibm
                   THEN /\ kg' = [i.kg EXCEPT !.key_calls = @ + 1]
                        /\ service' = i.service
                        /\ backend' = i.backend
                        /\ circuit' = i.circuit
                   ELSE /\ kg' = [kg EXCEPT !.key_calls = @ + 1]
                        /\ UNCHANGED <<service, backend, circuit>>
                /\ IF init
                   THEN pkgBackend' = r.backend /\ pkgCircuit' = r.circuit
                   ELSE UNCHANGED <<pkgBackend, pkgCircuit>>
                /\ IF init /\ r.raised
                   THEN /\ pc' = "idle"
                        /\ frame' = NoFrame
                        /\ result' = Raised("ImportError")
                   ELSE /\ pc' = "pkg_while"
                        /\ frame' = [NoFrame EXCEPT !.caller = "keygen",
                                                    !.rawN = ScaledKeyBits]
                        /\ result' = NoResult
    /\ UNCHANGED <<fnVars, rt, av, cc, bitCache, pkgService, pkgBitCache>>

NextKeygen ==
    \/ \E c \in BOOLEAN : PkgSetProviderAsIBMQ(c)
    \/ \E p \in {"ibm", "aer"}, aer \in BOOLEAN : PkgSetBackend(p, aer)
    \/ \E env \in KeygenEnvs : CallInitIbmForCrypto(env)
    \/ \E key_size \in {128, KEY_SIZE}, use_ibm \in BOOLEAN, env \in KeygenEnvs :
          CallGenerateQrngKey(key_size, use_ibm, env)
    \/ PkgRequest
    \/ PkgDequeue

SpecKeygen == Init /\ [][NextKeygen]_vars

\* get_bit_string asked for its diagnostics
NextDiagnostics ==
    \/ \E c \in BOOLEAN : SetProviderAsIBMQ(c)
    \/ \E n \in NSet, e \in BOOLEAN : CallGetBitStringWithStats(n, e)
    \/ RawRequest
    \/ RawDequeue
    \/ GbsLoop
    \/ GbsReturn

SpecDiagnostics == Init /\ [][NextDiagnostics]_vars

\* ------------------------------------- two callers of get_raw_bit_string
\* the buffer a caller works on: the one module-level _bitCache, or its own
BufferOf(c) == IF cc.shared THEN 1 ELSE c

\* the bits the source hands out are numbered, so that each can be told apart
FreshBits(from, count) == [i \in 1..count |-> from + i]

\* the arrangement is chosen: one shared _bitCache, or one buffer per caller
SetUpBuffers(shared) ==
    /\ ~cc.set_up
    /\ cc' = [cc EXCEPT !.set_up = TRUE, !.shared = shared]
    /\ UNCHANGED <<coreVars, fnVars, rt, av, kg>>

\* the lengths the callers ask for: one bit, and several shots
CallerLengths == {1, MaxCallerShots * DEFAULT_QUBITS}

\* caller c enters get_raw_bit_string(n)
CallerEnters(c, n) ==
    /\ cc.set_up
    /\ cc.pc[c] = "idle"
    /\ cc.calls[c] < MaxCallerCalls
    /\ cc' = [cc EXCEPT !.pc[c] = "while", !.n_bits[c] = n, !.calls[c] = @ + 1]
    /\ UNCHANGED <<coreVars, fnVars, rt, av, kg>>

\* line 297: the loop test, on the buffer as it is now
CallerWhile(c) ==
    /\ cc.pc[c] = "while"
    /\ cc' = [cc EXCEPT !.pc[c] = IF RawLoopContinues(cc.cache[BufferOf(c)], cc.n_bits[c])
                                  THEN "needed_shots" ELSE "read"]
    /\ UNCHANGED <<coreVars, fnVars, rt, av, kg>>

\* lines 298-299: needed_shots, from a second reading of the buffer's
\* length, and _request_bits up to the submission of the job
CallerNeededShots(c) ==
    /\ cc.pc[c] = "needed_shots"
    /\ cc' = [cc EXCEPT !.pc[c] = "job",
                        !.needed_shots[c] =
                            NeededShots(cc.n_bits[c], Len(cc.cache[BufferOf(c)]))]
    /\ UNCHANGED <<coreVars, fnVars, rt, av, kg>>

\* _request_bits: job.result() has answered; _append_memory (line 166) loads
\* _bitCache, the first half of `_bitCache += ...`
CallerResult(c) ==
    /\ cc.pc[c] = "job"
    /\ LET bits == FreshBits(cc.serial, cc.needed_shots[c] * DEFAULT_QUBITS)
       IN  cc' = [cc EXCEPT !.pc[c] = "append",
                            !.mem[c] = bits,
                            !.loaded[c] = cc.cache[BufferOf(c)],
                            !.serial = @ + Len(bits)]
    /\ UNCHANGED <<coreVars, fnVars, rt, av, kg>>

\* line 166, second half: the sum is stored in _bitCache; back to line 297
CallerAppend(c) ==
    /\ cc.pc[c] = "append"
    /\ cc' = [cc EXCEPT !.cache[BufferOf(c)] = cc.loaded[c] \o cc.mem[c],
                        !.produced[BufferOf(c)] = @ \o cc.mem[c],
                        !.mem[c] = <<>>,
                        !.loaded[c] = <<>>,
                        !.needed_shots[c] = 0,
                        !.pc[c] = "while"]
    /\ UNCHANGED <<coreVars, fnVars, rt, av, kg>>

\* line 301: raw = _bitCache[:n_bits]
CallerReads(c) ==
    /\ cc.pc[c] = "read"
    /\ cc' = [cc EXCEPT !.raw[c] = SlicePrefix(cc.cache[BufferOf(c)], cc.n_bits[c]),
                        !.pc[c] = "write"]
    /\ UNCHANGED <<coreVars, fnVars, rt, av, kg>>

\* lines 302-303: _bitCache = _bitCache[n_bits:]; return raw
CallerWrites(c) ==
    /\ cc.pc[c] = "write"
    /\ cc' = [cc EXCEPT !.cache[BufferOf(c)] = SliceSuffix(@, cc.n_bits[c]),
                        !.returned[c] = @ \o cc.raw[c],
                        !.raw[c] = <<>>,
                        !.pc[c] = "idle"]
    /\ UNCHANGED <<coreVars, fnVars, rt, av, kg>>

NextCallers ==
    \/ \E shared \in BOOLEAN : SetUpBuffers(shared)
    \/ \E c \in Callers, n \in CallerLengths : CallerEnters(c, n)
    \/ \E c \in Callers : CallerWhile(c)
    \/ \E c \in Callers : CallerNeededShots(c)
    \/ \E c \in Callers : CallerResult(c)
    \/ \E c \in Callers : CallerAppend(c)
    \/ \E c \in Callers : CallerReads(c)
    \/ \E c \in Callers : CallerWrites(c)

SpecCallers == Init /\ [][NextCallers]_vars

\* variable-length extraction: get_extracted_bits_true on the core's buffer
ExtractNSet == (0 - MaxNeg)..MaxRawN

NextExtract ==
    \/ \E c \in BOOLEAN : SetProviderAsIBMQ(c)
    \/ \E n \in ExtractNSet : CallGetExtractedBitsTrue(n)
    \/ RawRequest
    \/ RawDequeue

SpecExtract == Init /\ [][NextExtract]_vars

\* ------------------------------------------------------ scoring functions
RECURSIVE Count(_, _)
\* bits.count(b)
Count(bits, b) ==
    IF bits = <<>> THEN 0
    ELSE (IF Head(bits) = b THEN 1 ELSE 0) + Count(Tail(bits), b)

\* -p0*log2(p0) - p1*log2(p1) for p0 = c0/(c0+c1), p1 = c1/(c0+c1), each term
\* only when its p is positive; c0 + c1 > 0
EntropyOfCounts(c0, c1) ==
    IF c0 = 0 \/ c1 = 0 THEN Zero
    ELSE IF c0 = c1 THEN Num("rat", 1, 1)
    ELSE Num("H", c0, c0 + c1)

\* qrng/noise_bias_analysis.py shannon_entropy
noise_shannon_entropy(bits) ==
    IF bits = <<>> THEN OutValue(Zero, FALSE)
    ELSE OutValue(EntropyOfCounts(Count(bits, 0), Count(bits, 1)), FALSE)

\* crypto/key_generation.py shannon_entropy: p0 = bits.count("0") / len(bits)
keygen_shannon_entropy(bits) ==
    IF Len(bits) = 0 THEN OutRaise("ZeroDivisionError")
    ELSE OutValue(EntropyOfCounts(Count(bits, 0), Count(bits, 1)), FALSE)

\* module2_analysis.py shannon_entropy: numpy / scipy.  On the empty
\* bitstream np.bincount gets a float64 array and counts / 0 is NaN; what
\* comes out is the library's choice.
module2_shannon_entropy_outcomes(bitstream) ==
    IF Len(bitstream) = 0
    THEN {OutRaise("TypeError"), OutValue(NaN, FALSE), OutValue(Zero, FALSE)}
    ELSE {OutValue(EntropyOfCounts(Count(bitstream, 0), Count(bitstream, 1)), FALSE)}

\* chi_square_test with expected = total
chi_square_test_expected_total(bitstream) ==
    LET count_0  == Count(bitstream, 0)
        count_1  == Count(bitstream, 1)
        total    == Len(bitstream)
        term(c)  == <<(c - total) * (c - total), total>>
        chi_sq   == <<term(count_0)[1] + term(count_1)[1], total>>
    IN  IF total = 0 THEN OutRaise("ZeroDivisionError")
        ELSE OutValue(Num("rat", chi_sq[1], chi_sq[2]),
                      RatLess(chi_sq, <<CRITICAL_MILLI, 1000>>))

\* module2_analysis.py chi_square_test; expected = total / 2 is total/2 exactly
chi_square_test(bitstream) ==
    LET count_0  == Count(bitstream, 0)
        count_1  == Count(bitstream, 1)
        total    == Len(bitstream)
        \* (count - expected) ** 2 / expected, as a fraction over 2 * total
        term(c)  == <<(2 * c - total) * (2 * c - total), 2 * total>>
        chi_sq   == <<term(count_0)[1] + term(count_1)[1], 2 * total>>
    IN  IF total = 0 THEN OutRaise("ZeroDivisionError")
        ELSE OutValue(Num("rat", chi_sq[1], chi_sq[2]),
                      RatLess(chi_sq, <<CRITICAL_MILLI, 1000>>))

\* the monobit sum adding 1 for each 1 and nothing for a 0
nist_frequency_monobit_test_ones_only(bits) ==
    LET n == Len(bits)
        s == Count(bits, 1)
    IN  IF n = 0 THEN OutValue(Zero, FALSE)
        ELSE OutValue(Num("erfc", s * s, 2 * n), FALSE)

\* qrng/noise_bias_analysis.py nist_frequency_monobit_test:
\* erfc((|s| / sqrt(n)) / sqrt(2)) = erfc(sqrt(s*s / (2n)))
nist_frequency_monobit_test(bits) ==
    LET n == Len(bits)
        s == Count(bits, 1) - Count(bits, 0)
    IN  IF n = 0 THEN OutValue(Zero, FALSE)
        ELSE OutValue(Num("erfc", s * s, 2 * n), FALSE)

RECURSIVE RunsFrom(_, _)
\* the number of i in i..n-1 (0-based) with bits[i] != bits[i-1]
RunsFrom(bits, i) ==
    IF i >= Len(bits) THEN 0
    ELSE (IF bits[i + 1] # bits[i] THEN 1 ELSE 0) + RunsFrom(bits, i + 1)

IsSquare(n) == \E k \in 0..n : k * k = n
Root(n) == CHOOSE k \in 0..n : k * k = n

\* abs(pi - 0.5) >= (2.0 / sqrt(n)) with pi = ones / n, as the floats decide
\* it.  When n is a perfect square sqrt(n) is exact and both sides are
\* evaluated bit by bit; the two sides can be equal as real numbers there and
\* the rounding of ones / n decides.  When n is not a square 2/sqrt(n) is
\* irrational, the two sides differ by far more than a rounding error and
\* the comparison is that of the exact values, (2*ones - n)^2 >= 16 * n.
RunsInapplicable(ones, n) ==
    IF IsSquare(n)
    THEN FloatGeq(FloatAbsMinusHalf(FloatDiv(ones, n)), FloatDiv(2, Root(n)))
    ELSE (2 * ones - n) * (2 * ones - n) >= 16 * n

\* the runs test dividing without looking at the denominator
nist_runs_test_unguarded(bits) ==
    LET n     == Len(bits)
        ones  == Count(bits, 1)
        zeros == n - ones
        runs  == 1 + RunsFrom(bits, 1)
        d     == runs * n - 2 * ones * zeros
        g     == Gcd(IF d < 0 THEN 0 - d ELSE d, 2 * ones * zeros)
        a     == (IF d < 0 THEN 0 - d ELSE d) \div g
        b     == (2 * ones * zeros) \div g
    IN  IF n < 2 THEN OutValue(Zero, FALSE)
        ELSE IF RunsInapplicable(ones, n) THEN OutValue(Zero, FALSE)
        ELSE IF ones * zeros = 0 THEN OutRaise("ZeroDivisionError")
        ELSE OutValue(Num("erfc", a * a * n, 2 * b * b), FALSE)

\* qrng/noise_bias_analysis.py nist_runs_test, with pi = ones / n:
\*   numerator   = |runs - 2*ones*zeros/n|
\*   denominator = 2*sqrt(2n)*ones*zeros/n^2
\* so (numerator/denominator)^2 = (runs*n - 2*ones*zeros)^2 * n / (8*ones^2*zeros^2)
nist_runs_test(bits) ==
    LET n     == Len(bits)
        ones  == Count(bits, 1)
        zeros == n - ones
        runs  == 1 + RunsFrom(bits, 1)
        d     == runs * n - 2 * ones * zeros
        \* |d| / (2*ones*zeros) in lowest terms, to keep the products small
        g     == Gcd(IF d < 0 THEN 0 - d ELSE d, 2 * ones * zeros)
        a     == (IF d < 0 THEN 0 - d ELSE d) \div g
        b     == (2 * ones * zeros) \div g
    IN  IF n < 2 THEN OutValue(Zero, FALSE)
        ELSE IF RunsInapplicable(ones, n) THEN OutValue(Zero, FALSE)
        ELSE IF ones * zeros = 0 THEN OutValue(Zero, FALSE)
        ELSE OutValue(Num("erfc", a * a * n, 2 * b * b), FALSE)

\* ------------------------------------------- pure functions on a bitstring
BitStrings == UNION {[1..k -> {0, 1}] : k \in 0..MaxLen}

InitFn ==
    /\ InitCore
    /\ fnIn \in BitStrings
    /\ fnCall = "none"
    /\ fnOut = NoOut

ApplyVonNeumannExtractor ==
    /\ fnCall' = "von_neumann_extractor"
    /\ fnOut' = OutBits(von_neumann_extractor(fnIn))
    /\ UNCHANGED <<fnIn, coreVars, appVars>>

\* the extractor run once more, on what it returned
ReapplyVonNeumannExtractor ==
    /\ fnCall \in {"von_neumann_extractor", "von_neumann_extractor_on_output"}
    /\ fnOut.kind = "ok"
    /\ fnIn' = fnOut.bits
    /\ fnCall' = "von_neumann_extractor_on_output"
    /\ fnOut' = OutBits(von_neumann_extractor(fnOut.bits))
    /\ UNCHANGED <<coreVars, appVars>>

ApplyNoiseShannonEntropy ==
    /\ fnCall' = "noise_shannon_entropy"
    /\ fnOut' = noise_shannon_entropy(fnIn)
    /\ UNCHANGED <<fnIn, coreVars, appVars>>

ApplyKeygenShannonEntropy ==
    /\ fnCall' = "keygen_shannon_entropy"
    /\ fnOut' = keygen_shannon_entropy(fnIn)
    /\ UNCHANGED <<fnIn, coreVars, appVars>>

ApplyModule2ShannonEntropy ==
    /\ fnCall' = "module2_shannon_entropy"
    /\ fnOut' \in module2_shannon_entropy_outcomes(fnIn)
    /\ UNCHANGED <<fnIn, coreVars, appVars>>

ApplyChiSquareTest ==
    /\ fnCall' = "chi_square_test"
    /\ fnOut' = chi_square_test(fnIn)
    /\ UNCHANGED <<fnIn, coreVars, appVars>>

ApplyMonobitTest ==
    /\ fnCall' = "nist_frequency_monobit_test"
    /\ fnOut' = nist_frequency_monobit_test(fnIn)
    /\ UNCHANGED <<fnIn, coreVars, appVars>>

ApplyRunsTest ==
    /\ fnCall' = "nist_runs_test"
    /\ fnOut' = nist_runs_test(fnIn)
    /\ UNCHANGED <<fnIn, coreVars, appVars>>

NextFn ==
    \/ ApplyVonNeumannExtractor
    \/ ReapplyVonNeumannExtractor
    \/ ApplyNoiseShannonEntropy
    \/ ApplyKeygenShannonEntropy
    \/ ApplyModule2ShannonEntropy
    \/ ApplyChiSquareTest
    \/ ApplyMonobitTest
    \/ ApplyRunsTest

SpecFn == InitFn /\ [][NextFn]_vars

\* ------------------------------------------- the p-value tests on long inputs
\* (10)^j 1^(a-j) 0^(b-j): a ones, b zeros, j leading alternations
Shape(a, b, j) ==
    [i \in 1..(a + b) |-> IF i <= 2 * j THEN i % 2
                          ELSE IF i <= j + a THEN 1 ELSE 0]

\* the lengths at which sqrt(n) is exact
LongLengths == {n \in 0..MaxLongLen : IsSquare(n)}

LongInputs ==
    UNION {UNION {{Shape(a, n - a, j) : j \in 0..Min(a, n - a)} : a \in 0..n}
           : n \in LongLengths}

InitLong ==
    /\ InitCore
    /\ fnIn \in LongInputs
    /\ fnCall = "none"
    /\ fnOut = NoOut

NextLong ==
    \/ ApplyMonobitTest
    \/ ApplyRunsTest

SpecLong == InitLong /\ [][NextLong]_vars

\* ------------------------------------------------- mean and 95% half-width
RatAdd(p, q) == Rat(p[1] * q[2] + q[1] * p[2], p[2] * q[2])
RatSub(p, q) == Rat(p[1] * q[2] - q[1] * p[2], p[2] * q[2])
RatMul(p, q) == Rat(p[1] * q[1], p[2] * q[2])

RECURSIVE RatSum(_)
RatSum(xs) == IF xs = <<>> THEN <<0, 1>> ELSE RatAdd(Head(xs), RatSum(Tail(xs)))

\* np.mean(values)
Mean(xs) == RatMul(RatSum(xs), <<1, Len(xs)>>)

\* the sum of the squared deviations from the mean
SquaredDeviations(xs) ==
    LET m == Mean(xs)
    IN  RatSum([i \in 1..Len(xs) |-> RatMul(RatSub(xs[i], m), RatSub(xs[i], m))])

\* the variance with the divisor n instead of n - 1
VariancePopulation(xs) == RatMul(SquaredDeviations(xs), <<1, Len(xs)>>)

\* np.std(values, ddof=1) ** 2
VarianceSample(xs) == RatMul(SquaredDeviations(xs), <<1, Len(xs) - 1>>)

\* 1.96 * (std / sqrt(n)) = sqrt(1.96^2 * variance / n)
HalfWidth(xs) ==
    LET z  == Rat(CI_Z_MILLI, 1000)
        sq == RatMul(RatMul(z, z), RatMul(VarianceSample(xs), <<1, Len(xs)>>))
    IN  IF sq[1] = 0 THEN Zero ELSE Num("sqrt", sq[1], sq[2])

\* the numeric values as rationals
AsRats(values) == [i \in 1..Len(values) |-> <<values[i].num, values[i].den>>]

\* a value that is missing or not a number
IsNa(v) == v.tag = "nan"

\* module2_analysis.py mean_ci_95: np.mean and np.std hand a NaN on
mean_ci_95(values) ==
    LET n   == Len(values)
        xs  == AsRats(values)
        m   == Mean(xs)
        nan == \E i \in 1..n : IsNa(values[i])
    IN  IF n = 0 THEN [OutValue(Zero, FALSE) EXCEPT !.ci = Zero]
        ELSE IF n = 1
        THEN [OutValue(IF nan THEN NaN ELSE Num("rat", m[1], m[2]), FALSE) EXCEPT !.ci = Zero]
        ELSE IF nan THEN [OutValue(NaN, FALSE) EXCEPT !.ci = NaN]
        ELSE [OutValue(Num("rat", m[1], m[2]), FALSE) EXCEPT !.ci = HalfWidth(xs)]

\* line 39: pd.to_numeric(series, errors="coerce").dropna()
DropNa(series) == SelectSeq(series, LAMBDA v : ~IsNa(v))

\* paper_tables_graphs.py mean_ci95
mean_ci95(series) ==
    LET x  == DropNa(series)
        n  == Len(x)
        xs == AsRats(x)
        m  == Mean(xs)
    IN  IF n = 0 THEN [OutValue(NaN, FALSE) EXCEPT !.ci = NaN, !.n = 0]
        ELSE IF n = 1
        THEN [OutValue(Num("rat", m[1], m[2]), FALSE) EXCEPT !.ci = Zero, !.n = n]
        ELSE [OutValue(Num("rat", m[1], m[2]), FALSE) EXCEPT !.ci = HalfWidth(xs), !.n = n]

\* the values a metric takes in the lists handed to the reduction
MetricValues == {Num("rat", k, 2) : k \in 0..MaxMetric}

\* the lists handed to the reduction: numbers, and entries that are missing
ValueLists == UNION {[1..k -> MetricValues \cup {NaN}] : k \in 0..MaxValues}

InitStats ==
    /\ InitCore
    /\ fnIn \in ValueLists
    /\ fnCall = "none"
    /\ fnOut = NoOut

ApplyMeanCi95 ==
    /\ fnCall' = "mean_ci_95"
    /\ fnOut' = mean_ci_95(fnIn)
    /\ UNCHANGED <<fnIn, coreVars, appVars>>

ApplyPaperMeanCi95 ==
    /\ fnCall' = "mean_ci95"
    /\ fnOut' = mean_ci95(fnIn)
    /\ UNCHANGED <<fnIn, coreVars, appVars>>

NextStats ==
    \/ ApplyMeanCi95
    \/ ApplyPaperMeanCi95

SpecStats == InitStats /\ [][NextStats]_vars

\* ------------------------------------------------------------- run_trials
\* bit_func(bit_length): a constant stream or an alternating one
TrialStreams(bit_length) ==
    {Zeros(bit_length), [i \in 1..bit_length |-> i % 2]}

TrialLengths == {0} \cup {2 * k : k \in 1..MaxHalfBits}

\* (p-value, verdict) of a test of randomness_testsuite
SuiteResults == {[p |-> Num("rat", 1, 2), ok |-> TRUE], [p |-> Zero, ok |-> FALSE]}

\* a pass counter that counts every trial
PassCountEveryTrial(count, ok) == count + 1

\* if ok: count += 1
PassCount(count, ok) == IF ok THEN count + 1 ELSE count

\* the row store_trial_result inserts
TrialRow(t, bit_length, bitstream, H, chi, freq, runs, block, apen) ==
    [trial |-> t, bit_length |-> bit_length, entropy |-> H.val,
     chi_square |-> chi.val, chi_square_pass |-> chi.passed,
     zeros |-> Count(bitstream, 0), ones |-> Count(bitstream, 1),
     frequency_p |-> freq.p, runs_p |-> runs.p, block_frequency_p |-> block.p,
     approx_entropy_p |-> apen.p]

CallRunTrials(trials, bit_length) ==
    /\ rt.pc = "idle"
    /\ rt' = [NoRun EXCEPT !.pc = "loop", !.trials = trials,
                           !.bit_length = bit_length, !.t = 1]
    /\ UNCHANGED <<coreVars, fnVars, av, cc, kg>>

\* one iteration of the trial loop
RunTrialsStep ==
    /\ rt.pc = "loop"
    /\ rt.t <= rt.trials
    /\ \E bitstream \in TrialStreams(rt.bit_length) :
       \E H \in module2_shannon_entropy_outcomes(bitstream),
          freq \in SuiteResults, runs \in SuiteResults,
          block \in SuiteResults, apen \in SuiteResults :
          LET chi    == chi_square_test(bitstream)
              called == [rt EXCEPT !.calls = Append(@, [trial |-> rt.t, arg |-> rt.bit_length])]
          IN  rt' = IF H.kind = "raise"
                    THEN [called EXCEPT !.pc = "raise", !.err = H.err]
                    ELSE IF chi.kind = "raise"
                    THEN [called EXCEPT !.pc = "raise", !.err = chi.err,
                                        !.entropy_list = Append(@, H.val)]
                    ELSE [called EXCEPT
                            !.entropy_list = Append(@, H.val),
                            !.chi_list = Append(@, chi.val),
                            !.chi_pass = PassCount(@, chi.passed),
                            !.freq_list = Append(@, freq.p),
                            !.freq_pass = PassCount(@, freq.ok),
                            !.runs_list = Append(@, runs.p),
                            !.runs_pass = PassCount(@, runs.ok),
                            !.block_list = Append(@, block.p),
                            !.block_pass = PassCount(@, block.ok),
                            !.apen_list = Append(@, apen.p),
                            !.apen_pass = PassCount(@, apen.ok),
                            !.rows = Append(@, TrialRow(rt.t, rt.bit_length, bitstream,
                                                        H, chi, freq, runs, block, apen)),
                            !.verdicts = Append(@, [chi |-> chi.passed, freq |-> freq.ok,
                                                    runs |-> runs.ok, block |-> block.ok,
                                                    apen |-> apen.ok]),
                            !.t = @ + 1]
    /\ UNCHANGED <<coreVars, fnVars, av, cc, kg>>

\* the loop is over: the six summaries
RunTrialsFinish ==
    /\ rt.pc = "loop"
    /\ rt.t > rt.trials
    /\ rt' = [rt EXCEPT !.pc = "done",
                        !.summary = <<mean_ci_95(rt.entropy_list), mean_ci_95(rt.chi_list),
                                      mean_ci_95(rt.freq_list), mean_ci_95(rt.runs_list),
                                      mean_ci_95(rt.block_list), mean_ci_95(rt.apen_list)>>]
    /\ UNCHANGED <<coreVars, fnVars, av, cc, kg>>

NextTrials ==
    \/ \E trials \in 0..MaxTrials, bit_length \in TrialLengths :
          CallRunTrials(trials, bit_length)
    \/ RunTrialsStep
    \/ RunTrialsFinish

SpecTrials == Init /\ [][NextTrials]_vars

\* ------------------------------------------------- AES avalanche experiment
\* bytes are integers 0..255, byte strings are sequences of bytes
SampleBytes == {0, 129, 255}

ByteStrings(maxLen) == UNION {[1..k -> SampleBytes] : k \in 0..maxLen}

\* (x >> k) & 1
BitOf(x, k) == (x \div (2 ^ k)) % 2

\* x ^ (1 << k)
XorBit(x, k) == IF BitOf(x, k) = 1 THEN x - 2 ^ k ELSE x + 2 ^ k

\* flip_one_bit_in_key counting the bits of a byte from its most significant
flip_one_bit_in_key_msb_first(key_bytes, bit_index) ==
    IF bit_index < 0 \/ bit_index >= Len(key_bytes) * BYTE_BITS
    THEN [OutRaise("ValueError") EXCEPT !.arg = key_bytes]
    ELSE [OutBits([key_bytes EXCEPT ![(bit_index \div BYTE_BITS) + 1] =
                      XorBit(@, BYTE_BITS - 1 - (bit_index % BYTE_BITS))])
          EXCEPT !.arg = key_bytes]

\* flip_one_bit_in_key working on the caller's key instead of a copy
flip_one_bit_in_key_in_place(key_bytes, bit_index) ==
    IF bit_index < 0 \/ bit_index >= Len(key_bytes) * BYTE_BITS
    THEN [OutRaise("ValueError") EXCEPT !.arg = key_bytes]
    ELSE LET key_list == [key_bytes EXCEPT ![(bit_index \div BYTE_BITS) + 1] =
                             XorBit(@, bit_index % BYTE_BITS)]
         IN  [OutBits(key_list) EXCEPT !.arg = key_list]

\* crypto/aes_classical.py and crypto/aes_qrng.py flip_one_bit_in_key: the
\* returned key in bits, the caller's key after the call in arg
flip_one_bit_in_key(key_bytes, bit_index) ==
    LET key_list    == key_bytes
        total_bits  == Len(key_list) * BYTE_BITS
        byte_index  == bit_index \div BYTE_BITS
        bit_in_byte == bit_index % BYTE_BITS
    IN  IF bit_index < 0 \/ bit_index >= total_bits
        THEN [OutRaise("ValueError") EXCEPT !.arg = key_bytes]
        ELSE [OutBits([key_list EXCEPT ![byte_index + 1] = XorBit(@, bit_in_byte)])
              EXCEPT !.arg = key_bytes]

\* "".join(format(x, "08b") for x in data)
BitsOfBytes(data) ==
    [i \in 1..(Len(data) * BYTE_BITS) |->
        BitOf(data[((i - 1) \div BYTE_BITS) + 1], BYTE_BITS - 1 - ((i - 1) % BYTE_BITS))]

\* avalanche_effect without the guard for an empty ciphertext
avalanche_effect_unguarded(cipher1, cipher2) ==
    LET b1      == BitsOfBytes(cipher1)
        b2      == BitsOfBytes(cipher2)
        min_len == Min(Len(b1), Len(b2))
        changes == Cardinality({i \in 1..min_len : b1[i] # b2[i]})
    IN  IF min_len = 0 THEN OutRaise("ZeroDivisionError")
        ELSE OutValue(Num("rat", changes * 100, min_len), FALSE)

\* crypto/aes_classical.py and crypto/aes_qrng.py avalanche_effect
avalanche_effect(cipher1, cipher2) ==
    LET b1      == BitsOfBytes(cipher1)
        b2      == BitsOfBytes(cipher2)
        min_len == Min(Len(b1), Len(b2))
        changes == Cardinality({i \in 1..min_len : b1[i] # b2[i]})
    IN  IF min_len = 0 THEN OutValue(Zero, FALSE)
        ELSE OutValue(Num("rat", changes * 100, min_len), FALSE)

AesInputs ==
    [bytes1 : ByteStrings(MaxBytes), bytes2 : ByteStrings(MaxBytes),
     bit_index : (0 - MaxNeg)..(MaxBytes * BYTE_BITS + 1)]

InitAes ==
    /\ InitCore
    /\ fnIn \in AesInputs
    /\ fnCall = "none"
    /\ fnOut = NoOut

ApplyFlipOneBitInKey ==
    /\ fnCall' = "flip_one_bit_in_key"
    /\ fnOut' = flip_one_bit_in_key(fnIn.bytes1, fnIn.bit_index)
    /\ UNCHANGED <<fnIn, coreVars, appVars>>

ApplyAvalancheEffect ==
    /\ fnCall' = "avalanche_effect"
    /\ fnOut' = avalanche_effect(fnIn.bytes1, fnIn.bytes2)
    /\ UNCHANGED <<fnIn, coreVars, appVars>>

NextAes ==
    \/ ApplyFlipOneBitInKey
    \/ ApplyAvalancheEffect

SpecAes == InitAes /\ [][NextAes]_vars

\* iv = b"\x00" * 16
ZeroIv == [i \in 1..IV_BYTES |-> 0]

\* the keys of the experiment (AES-256 keys, scaled down)
AvalancheKeys == ByteStrings(MaxAvKeyBytes) \ {<<>>}

Plaintexts == {"a", "msg"}

\* what the AES library returns for a key, an IV and a padded plaintext
CipherTexts == {<<0>>, <<15>>, <<255>>}

\* a draw that can also return key_bits_total
BitIndicesUpToTotal(key_bits_total) == 0..key_bits_total

\* random.randint(0, key_bits_total - 1): both ends included
BitIndices(key_bits_total) == 0..(key_bits_total - 1)

\* statistics.pstdev(data) ** 2
PopulationVariance(xs) == RatMul(SquaredDeviations(xs), <<1, Len(xs)>>)

\* run_classical_mode / aes_qrng.main up to the baseline encryption
CallAvalancheRun(key, plaintext, trials, ciphertext1) ==
    /\ av.pc = "idle"
    /\ av' = [NoAvalanche EXCEPT
                !.pc = "loop", !.key = key, !.iv = ZeroIv, !.plaintext = plaintext,
                !.ciphertext1 = ciphertext1, !.trials = trials, !.t = 1,
                !.key0 = key, !.plaintext0 = plaintext, !.baseline = ciphertext1,
                !.enc = [key |-> key, iv |-> ZeroIv, plaintext |-> plaintext]]
    /\ UNCHANGED <<coreVars, fnVars, rt, cc, kg>>

\* one avalanche trial
AvalancheTrial ==
    /\ av.pc = "loop"
    /\ av.t <= av.trials
    /\ \E bit_index \in BitIndices(Len(av.key) * BYTE_BITS), ciphertext2 \in CipherTexts :
          LET flipped == flip_one_bit_in_key(av.key, bit_index)
              sample  == avalanche_effect(av.ciphertext1, ciphertext2)
          IN  av' = IF flipped.kind = "raise"
                    THEN [av EXCEPT !.pc = "raise", !.err = flipped.err,
                                    !.bit_index = bit_index, !.key = flipped.arg]
                    ELSE [av EXCEPT
                            !.bit_index = bit_index,
                            !.key = flipped.arg,
                            !.flipped_key = flipped.bits,
                            !.enc = [key |-> flipped.bits, iv |-> av.iv,
                                     plaintext |-> av.plaintext],
                            !.ciphertext2 = ciphertext2,
                            !.compared = av.ciphertext1,
                            !.avalanche_list = Append(@, <<sample.val.num, sample.val.den>>),
                            !.t = @ + 1]
    /\ UNCHANGED <<coreVars, fnVars, rt, cc, kg>>

\* the loop is over: statistics.mean and statistics.pstdev of the samples
AvalancheFinish ==
    /\ av.pc = "loop"
    /\ av.t > av.trials
    /\ av' = IF av.avalanche_list = <<>>
             THEN [av EXCEPT !.pc = "raise", !.err = "StatisticsError",
                             !.aggregated = av.avalanche_list]
             ELSE [av EXCEPT !.pc = "done", !.aggregated = av.avalanche_list,
                             !.mean = Mean(av.avalanche_list),
                             !.std_squared = PopulationVariance(av.avalanche_list)]
    /\ UNCHANGED <<coreVars, fnVars, rt, cc, kg>>

NextAvalanche ==
    \/ \E key \in AvalancheKeys, plaintext \in Plaintexts,
          trials \in 0..MaxAvTrials, ciphertext1 \in CipherTexts :
          CallAvalancheRun(key, plaintext, trials, ciphertext1)
    \/ AvalancheTrial
    \/ AvalancheFinish

SpecAvalanche == Init /\ [][NextAvalanche]_vars

\* ===================================================================== claims

\* C1: whenever get_bit_string(n, use_extractor=True) with n >= 0 returns, the
\* loop has accumulated at least n debiased bits and the returned bitstring is
\* their first n: its length is exactly n.
C1_ExactLength ==
    (pc = "idle" /\ obs.op = "get_bit_string" /\ obs.useExtractor
        /\ obs.n >= 0 /\ result.kind = "ok")
    => /\ Len(result.bits) = obs.n
       /\ Len(obs.accum) >= obs.n
       /\ result.bits = SubSeq(obs.accum, 1, obs.n)

\* a call that found bits in the cache, went through the loop at least twice
\* and cut surplus debiased bits off
C1_Witness ==
    /\ pc = "idle" /\ obs.op = "get_bit_string" /\ obs.useExtractor
    /\ result.kind = "ok" /\ obs.n >= 2 /\ obs.iters >= 2
    /\ obs.cacheAtEntry # <<>>
    /\ Len(obs.accum) > obs.n

\* C2: get_bit_string(0) never calls _request_bits, leaves the raw-bit cache
\* as it found it, and returns the empty bitstring.
C2_ZeroLength ==
    (obs.op = "get_bit_string" /\ obs.n = 0)
    => /\ obs.srcCalls = 0
       /\ bitCache = obs.cacheAtEntry
       /\ (pc = "idle" => result = Returned(<<>>))

C2_Witness ==
    /\ pc = "idle" /\ obs.op = "get_bit_string" /\ obs.n = 0 /\ obs.useExtractor
    /\ obs.cacheAtEntry # <<>> /\ result.kind = "ok"

\* C3: a buffer request for n > 0 bits (get_raw_bit_string of the core,
\* get_bit_string of the package) that returns gives exactly n bits: the first
\* n of what was buffered followed by what the source appended during the
\* call; the rest stays buffered; the source is consulted iff fewer than n
\* bits were buffered.
C3_ExactRequest ==
    (pc = "idle" /\ obs.op \in {"get_raw_bit_string", "pkg_get_bit_string"}
        /\ obs.n > 0 /\ result.kind = "ok")
    => LET cache == IF obs.op = "get_raw_bit_string" THEN bitCache ELSE pkgBitCache
           all   == obs.cacheAtEntry \o obs.appended
       IN  /\ Len(result.bits) = obs.n
           /\ result.bits \o cache = all
           /\ (obs.srcCalls > 0 <=> Len(obs.cacheAtEntry) < obs.n)

\* a request that found too few bits buffered, pulled and left a remainder
C3_Witness ==
    /\ pc = "idle" /\ obs.op = "get_raw_bit_string" /\ obs.n > 0
    /\ result.kind = "ok" /\ obs.cacheAtEntry # <<>> /\ obs.srcCalls > 0
    /\ bitCache # <<>>

\* C4: FIFO.  obs.pending is the queue of source bits not yet returned: every
\* string get_raw_bit_string returns is the oldest part of that queue
\* (obs.fifoOk) and the cache holds exactly the rest, so the returned strings
\* followed by the cache are the source's bits in order.  (It holds for
\* negative n_bits too.)
C4_Fifo == obs.fifoOk /\ obs.pending = bitCache

\* bits of both values were handed out across two loop iterations and a
\* remainder is still buffered
C4_Witness ==
    /\ pc = "idle" /\ obs.op = "get_bit_string" /\ obs.iters >= 2
    /\ result.kind = "ok" /\ obs.cacheAtEntry # <<>> /\ bitCache # <<>>
    /\ \E i \in 1..Len(obs.appended) : obs.appended[i] = 1

RECURSIVE PairwiseRef(_)
\* the reference transform: cut two bits off the front; unequal bits emit the
\* first of the two (01 -> 0, 10 -> 1), equal bits emit nothing
PairwiseRef(s) ==
    IF Len(s) < 2 THEN <<>>
    ELSE (IF s[1] = s[2] THEN <<>> ELSE <<s[1]>>) \o PairwiseRef(SubSeq(s, 3, Len(s)))

\* C5: von_neumann_extractor is the pairwise transform on non-overlapping
\* 2-bit windows from index 0; a trailing unpaired bit emits nothing.
C5_PairwiseTransform ==
    fnCall = "von_neumann_extractor"
    => fnOut.kind = "ok" /\ fnOut.bits = PairwiseRef(fnIn)

\* an odd-length input ending in 1 with an emitting and a discarded window
C5_Witness ==
    /\ fnCall = "von_neumann_extractor"
    /\ Len(fnIn) % 2 = 1 /\ fnIn[Len(fnIn)] = 1
    /\ Len(fnOut.bits) >= 1
    /\ Len(fnOut.bits) < Len(fnIn) \div 2

\* C6: the extraction loop is bounded: once StallLimit iterations have run the
\* loop does not start another one (the call has returned its n bits or has
\* surfaced ExtractionStalled).
C6_LoopBounded ==
    (obs.op = "get_bit_string" /\ pc = "gbs_while" /\ obs.iters >= StallLimit)
    => ~LoopContinues(frame.extracted, frame.nBits)

\* C7: a backend run that raises while get_raw_bit_string or get_bit_string
\* is in progress makes the call fail as a unit: the failure reaches the
\* caller, and no other source is substituted for the one that failed.
C7_AnyFailureAborts ==
    (obs.op \in {"get_raw_bit_string", "get_bit_string"}
        /\ (obs.hwFailed \/ obs.simRaised))
    => (pc = "idle" /\ result.kind = "raise")

\* C8: a negative n_bits is rejected as an invalid parameter: nothing is
\* returned, the source is not consulted, the cache is unchanged.
C8_NegativeRejected ==
    (pc = "idle" /\ obs.op \in {"get_raw_bit_string", "get_bit_string"} /\ obs.n < 0)
    => /\ result.kind = "raise"
       /\ result.err = "InvalidParameter"
       /\ obs.srcCalls = 0
       /\ bitCache = obs.cacheAtEntry

ScoringFunctions ==
    {"noise_shannon_entropy", "keygen_shannon_entropy", "module2_shannon_entropy",
     "chi_square_test", "nist_frequency_monobit_test", "nist_runs_test"}

\* C9: on the empty bitstring every scoring function returns a zero, failing
\* result and none raises.
C9_TotalOnEmpty ==
    (fnIn = <<>> /\ fnCall \in ScoringFunctions)
    => fnOut.kind = "ok" /\ fnOut.val = Zero /\ ~fnOut.passed

\* C10: on a non-empty bitstring chi_square_test returns
\* chi2 = ((c0 - n/2)^2 + (c1 - n/2)^2) / (n/2) = ((2c0-n)^2 + (2c1-n)^2) / (2n)
\* and passed = (chi2 < 3.841); a balanced bitstring gives 0 and passes.
C10_ChiSquare ==
    (fnCall = "chi_square_test" /\ fnIn # <<>>)
    => LET n  == Len(fnIn)
           c0 == Cardinality({i \in 1..n : fnIn[i] = 0})
           c1 == Cardinality({i \in 1..n : fnIn[i] = 1})
           v  == fnOut.val
       IN  /\ fnOut.kind = "ok" /\ v.tag = "rat" /\ v.den > 0
           /\ v.num * 2 * n = v.den * ((2*c0 - n) * (2*c0 - n) + (2*c1 - n) * (2*c1 - n))
           /\ fnOut.passed <=> (1000 * v.num < 3841 * v.den)
           /\ c0 = c1 => (v = Zero /\ fnOut.passed)

\* a balanced bitstring of at least four bits
C10_Witness ==
    /\ fnCall = "chi_square_test" /\ Len(fnIn) >= 4
    /\ Cardinality({i \in 1..Len(fnIn) : fnIn[i] = 0}) * 2 = Len(fnIn)
    /\ fnOut.val = Zero /\ fnOut.passed

\* C11: for n >= 2 nist_runs_test returns p = 0 for inapplicability exactly
\* when (2*ones - n)^2 >= 16*n, and otherwise computes the runs statistic
\* (p = erfc of it when both values occur).
C11_RunsApplicability ==
    (fnCall = "nist_runs_test" /\ Len(fnIn) >= 2)
    => LET n     == Len(fnIn)
           ones  == Cardinality({i \in 1..n : fnIn[i] = 1})
           inapp == (2 * ones - n) * (2 * ones - n) >= 16 * n
       IN  /\ fnOut.kind = "ok"
           /\ inapp => fnOut.val = Zero
           /\ (~inapp /\ ones # 0 /\ ones # n) => fnOut.val.tag = "erfc"

\* erfc(sqrt(x)) < 0.01 holds when x > 3.318 (erfc(sqrt(3.3175)) = 0.01)
ErfcBelowOnePercent(v) == v.tag = "erfc" /\ 1000 * v.num > 3318 * v.den

\* C12: on a non-empty bitstring the monobit p-value is erfc(sobs / sqrt(2))
\* with sobs = |ones - zeros| / sqrt(n), i.e. erfc(sqrt((ones-zeros)^2 / (2n)));
\* on an all-zero bitstring sobs^2 = n (sobs = sqrt(n)), and from n = 7 on the
\* p-value is below 0.01.
C12_Monobit ==
    (fnCall = "nist_frequency_monobit_test" /\ fnIn # <<>>)
    => LET n     == Len(fnIn)
           ones  == Cardinality({i \in 1..n : fnIn[i] = 1})
           zeros == n - ones
           v     == fnOut.val
       IN  /\ fnOut.kind = "ok" /\ v.tag = "erfc" /\ v.den > 0
           /\ v.num * 2 * n = v.den * (ones - zeros) * (ones - zeros)
           /\ ones = 0 => /\ 2 * v.num = n * v.den
                          /\ n >= 7 => ErfcBelowOnePercent(v)

\* the all-zero bitstring of 100 bits: sobs = 10, p = erfc(sqrt(50))
C12_Witness ==
    /\ fnCall = "nist_frequency_monobit_test"
    /\ Len(fnIn) >= 100 /\ \A i \in 1..Len(fnIn) : fnIn[i] = 0
    /\ fnOut.val = Num("erfc", Len(fnIn), 2)
    /\ ErfcBelowOnePercent(fnOut.val)

\* C13: run_trials calls the bit source once per trial, in trial order and
\* with bit_length, never more than `trials` times; when it has finished it
\* has made exactly `trials` calls, every per-metric list has length
\* `trials`, one row per trial is stored, and each pass counter is the
\* number of trials with a passing verdict for its test.
C13_RunTrials ==
    LET Passes(test) == Cardinality({i \in 1..Len(rt.verdicts) : rt.verdicts[i][test]})
    IN  /\ Len(rt.calls) <= rt.trials
        /\ \A i \in 1..Len(rt.calls) :
              rt.calls[i] = [trial |-> i, arg |-> rt.bit_length]
        /\ rt.pc = "done" =>
              /\ Len(rt.calls) = rt.trials
              /\ \A l \in {rt.entropy_list, rt.chi_list, rt.freq_list, rt.runs_list,
                            rt.block_list, rt.apen_list} : Len(l) = rt.trials
              /\ Len(rt.rows) = rt.trials
              /\ \A i \in 1..rt.trials : rt.rows[i].trial = i
              /\ Len(rt.verdicts) = rt.trials
              /\ rt.chi_pass = Passes("chi")
              /\ rt.freq_pass = Passes("freq")
              /\ rt.runs_pass = Passes("runs")
              /\ rt.block_pass = Passes("block")
              /\ rt.apen_pass = Passes("apen")
              /\ \A c \in {rt.chi_pass, rt.freq_pass, rt.runs_pass, rt.block_pass,
                            rt.apen_pass} : c \in 0..rt.trials

\* a finished run of two trials, one test passing in one and failing in the other
C13_Witness ==
    /\ rt.pc = "done"
    /\ rt.trials = 2
    /\ rt.freq_pass = 1
    /\ rt.chi_pass = 1
    /\ Len(rt.rows) = 2

RECURSIVE SumOver(_, _)
\* the sum of f[i] over i in 1..k
SumOver(f, k) == IF k = 0 THEN 0 ELSE f[k] + SumOver(f, k - 1)

\* the entries of a list that are numbers
Numbers(s) == SelectSeq(s, LAMBDA v : v.tag = "rat")

\* C14: the half-width of one value is exactly 0.0; for n >= 2 values it is
\* 1.96 * s / sqrt(n) with s^2 = (sum of squared deviations) / (n - 1), that
\* is, with the values k_i / 2, the square root of
\* 1.96^2 * (n * sum k_i^2 - (sum k_i)^2) / (4 * n^2 * (n - 1)).  The values
\* of mean_ci95 are the entries of the series that are numbers.
C14_HalfWidth ==
    LET xs == IF fnCall = "mean_ci95" THEN Numbers(fnIn) ELSE fnIn
    IN  (fnCall \in {"mean_ci_95", "mean_ci95"} /\ Len(xs) >= 1 /\ xs = Numbers(xs))
        => LET n   == Len(xs)
               k   == [i \in 1..n |-> (2 * xs[i].num) \div xs[i].den]
               d   == n * SumOver([i \in 1..n |-> k[i] * k[i]], n)
                      - SumOver(k, n) * SumOver(k, n)
               sq  == Rat(2401 * d, 2500 * n * n * (n - 1))
           IN  /\ fnOut.kind = "ok"
               /\ n = 1 => fnOut.ci = Zero
               /\ (n >= 2 /\ d = 0) => fnOut.ci = Zero
               /\ (n >= 2 /\ d # 0) => fnOut.ci = [tag |-> "sqrt", num |-> sq[1], den |-> sq[2]]

\* three values, not all equal: the half-width is a positive square root
C14_Witness ==
    /\ fnCall = "mean_ci_95"
    /\ fnIn = <<Num("rat", 0, 1), Num("rat", 1, 2), Num("rat", 1, 1)>>
    /\ fnOut.val = Num("rat", 1, 2)
    /\ fnOut.ci = Num("sqrt", 2401, 7500)

\* C15: on an empty list the mean and the half-width are an explicit
\* undefined marker, neither a number nor NaN.
C15_UndefinedSentinel ==
    (fnCall \in {"mean_ci_95", "mean_ci95"} /\ fnIn = <<>>)
    => /\ fnOut.val.tag \notin {"rat", "H", "erfc", "sqrt", "nan"}
       /\ fnOut.ci.tag \notin {"rat", "H", "erfc", "sqrt", "nan"}

\* the bit positions (byte, bit of the byte) where two byte strings of the
\* same length differ
DifferingBits(a, b) ==
    {pos \in (1..Len(a)) \X (0..(BYTE_BITS - 1)) :
        BitOf(a[pos[1]], pos[2]) # BitOf(b[pos[1]], pos[2])}

\* C16: for bit_index in [0, 8 * len(key)) flip_one_bit_in_key returns a key
\* of the same length that differs from the input in exactly one bit, bit
\* (bit_index mod 8) of byte (bit_index div 8), and the input key is unchanged.
C16_FlipOneBit ==
    (/\ fnCall = "flip_one_bit_in_key"
     /\ fnIn.bit_index >= 0
     /\ fnIn.bit_index < 8 * Len(fnIn.bytes1))
    => /\ fnOut.kind = "ok"
       /\ Len(fnOut.bits) = Len(fnIn.bytes1)
       /\ \A i \in 1..Len(fnOut.bits) : fnOut.bits[i] \in 0..255
       /\ DifferingBits(fnOut.bits, fnIn.bytes1)
             = {<<(fnIn.bit_index \div 8) + 1, fnIn.bit_index % 8>>}
       /\ fnOut.arg = fnIn.bytes1

\* bit 3 of the second byte is flipped: 129 = 0x81 becomes 0x89 = 137
C16_Witness ==
    /\ fnCall = "flip_one_bit_in_key"
    /\ fnIn.bytes1 = <<255, 129>>
    /\ fnIn.bit_index = 11
    /\ fnOut.bits = <<255, 137>>

\* C18: avalanche_effect(c1, c2) is 100 * (differing bits among the first m)
\* / m with m the smaller bit length, and 0.0 when m = 0; it lies in
\* [0, 100] and is 0 when c1 = c2.
C18_AvalancheEffect ==
    fnCall = "avalanche_effect"
    => LET k    == Min(Len(fnIn.bytes1), Len(fnIn.bytes2))
           m    == 8 * k
           diff == Cardinality(DifferingBits(SubSeq(fnIn.bytes1, 1, k),
                                             SubSeq(fnIn.bytes2, 1, k)))
           v    == fnOut.val
       IN  /\ fnOut.kind = "ok"
           /\ v.tag = "rat"
           /\ m = 0 => v = Zero
           /\ m > 0 => v.num * m = 100 * diff * v.den
           /\ v.num >= 0 /\ v.num <= 100 * v.den
           /\ fnIn.bytes1 = fnIn.bytes2 => v = Zero

\* one of the two ciphertexts is empty and the call returns 0.0
C18_Witness ==
    /\ fnCall = "avalanche_effect"
    /\ fnIn.bytes1 = <<>>
    /\ fnIn.bytes2 = <<129, 255>>
    /\ fnOut = OutValue(Zero, FALSE)

\* C17: flip_one_bit_in_key raises, with the key untouched, on every
\* bit_index below 0 or from 8 * len(key) on, and the avalanche loop only
\* passes indices in [0, 8 * len(key)), so no trial raises that error.
C17_IndexRange ==
    av.pc # "idle"
    => LET total == 8 * Len(av.key0)
       IN  /\ \A i \in ((0 - MaxNeg)..(0 - 1)) \cup (total..(total + MaxNeg)) :
                 LET r == flip_one_bit_in_key(av.key0, i)
                 IN  r.kind = "raise" /\ r.err = "ValueError" /\ r.bits = <<>>
                     /\ r.arg = av.key0
           /\ av.t > 1 => av.bit_index \in 0..(total - 1)
           /\ av.err # "ValueError"

\* the last bit of the key was flipped in a trial
C17_Witness ==
    /\ av.pc = "done"
    /\ av.key0 = <<129>>
    /\ av.bit_index = 7
    /\ av.flipped_key = <<1>>

\* C19: throughout an avalanche run the key, the IV, the plaintext and the
\* baseline ciphertext are the original ones; each trial encrypts the same
\* plaintext under the same IV with the original key with one bit flipped
\* and compares against the baseline; the samples aggregated are exactly
\* `trials` many.
C19_AvalancheRun ==
    av.pc # "idle"
    => /\ av.key = av.key0
       /\ av.iv = ZeroIv
       /\ av.plaintext = av.plaintext0
       /\ av.ciphertext1 = av.baseline
       /\ Len(av.avalanche_list) = av.t - 1
       /\ Len(av.avalanche_list) <= av.trials
       /\ av.t > 1 =>
             /\ Len(av.flipped_key) = Len(av.key0)
             /\ Cardinality(DifferingBits(av.flipped_key, av.key0)) = 1
             /\ av.enc = [key |-> av.flipped_key, iv |-> ZeroIv,
                          plaintext |-> av.plaintext0]
             /\ av.compared = av.baseline
       /\ av.pc \in {"done", "raise"} =>
             /\ av.aggregated = av.avalanche_list
             /\ Len(av.aggregated) = av.trials

\* two trials done, on different bits of the same original key
C19_Witness ==
    /\ av.pc = "done"
    /\ av.trials = 2
    /\ av.key0 = <<255>>
    /\ av.flipped_key = <<127>>
    /\ av.avalanche_list = <<<<100, 1>>, <<50, 1>>>>
    /\ av.mean = <<75, 1>>

\* C20 as stated: get_extracted_bits_true(raw_n) returns the raw string of
\* length raw_n drawn from the buffer, its pairwise transform, and the
\* observed efficiency len(extracted) / len(raw).
C20_WithEfficiency ==
    (pc = "idle" /\ obs.op = "get_extracted_bits_true" /\ obs.n > 0
        /\ result.kind = "ok")
    => /\ Len(result.tuple) = 3
       /\ Len(result.tuple[1]) = obs.n
       /\ result.tuple[1] = SubSeq(obs.cacheAtEntry \o obs.appended, 1, obs.n)
       /\ result.tuple[2] = PairwiseRef(result.tuple[1])
       /\ result.tuple[3] = Rat(Len(result.tuple[2]), Len(result.tuple[1]))

\* C21: the pairwise transform run on any bitstring, its own earlier output
\* included, does not fail and returns at most floor(len(input) / 2) bits.
C21_AtMostHalf ==
    fnCall \in {"von_neumann_extractor", "von_neumann_extractor_on_output"}
    => /\ fnOut.kind = "ok"
       /\ Len(fnOut.bits) <= Len(fnIn) \div 2
       /\ \A i \in 1..Len(fnOut.bits) : fnOut.bits[i] \in {0, 1}

\* the transform run on a three-bit output of its own, giving one bit
C21_Witness ==
    /\ fnCall = "von_neumann_extractor_on_output"
    /\ Len(fnIn) = 3
    /\ Len(fnOut.bits) = 1

\* the elements of a sequence
Range(s) == {s[i] : i \in 1..Len(s)}

\* C22: with one buffer per caller, statement-by-statement interleaving of
\* two get_raw_bit_string calls keeps every buffer exact: what a caller has
\* been given, followed by what its buffer holds, is what the source put
\* into that buffer, in order and once each.  (With one shared buffer the
\* state of C22_Witness is reachable.)
C22_OwnBuffersExact ==
    (cc.set_up /\ ~cc.shared)
    => \A c \in Callers :
          /\ cc.returned[c] \o cc.cache[c] = cc.produced[c]
          /\ cc.pc[c] = "write" => cc.raw[c] = SubSeq(cc.cache[c], 1, cc.n_bits[c])
          /\ Range(cc.returned[1]) \cap Range(cc.returned[2]) = {}

\* one shared buffer, both callers back from their calls: a source bit has
\* been returned to both, and another one to neither although it is no
\* longer buffered
C22_Witness ==
    /\ cc.set_up /\ cc.shared
    /\ \A c \in Callers : cc.pc[c] = "idle"
    /\ Range(cc.returned[1]) \cap Range(cc.returned[2]) # {}
    /\ Range(cc.produced[1])
         \ (Range(cc.returned[1]) \cup Range(cc.returned[2]) \cup Range(cc.cache[1])) # {}

\* math.ceil(x) for a non-negative double below 2^31
FloatCeil(x) ==
    IF x = FloatZero THEN 0
    ELSE IF x[1] <= 0 THEN 1
    ELSE FloatToInt(x)
           + (IF \E i \in (x[1] + 1)..MANT_BITS : x[2][i] = 1 THEN 1 ELSE 0)

\* C23: each iteration of the extraction loop requests
\* ceil(remaining / est_efficiency) + DEFAULT_QUBITS * 4 raw bits, with
\* remaining = n - len(extracted).
C23_RequestIsCeiling ==
    (pc = "raw_while" /\ frame.caller = "gbs")
    => LET remaining == frame.nBits - Len(frame.extracted)
           q == FloatQuot(FloatOfInt(remaining), frame.est)
       IN  frame.rawN = FloatCeil(q) + DEFAULT_QUBITS * SAFETY_FACTOR

\* the least double above 0.01
AboveFloor == <<EFFICIENCY_FLOOR[1], IncBits(EFFICIENCY_FLOOR[2])>>

\* An iteration without output leaves an estimate of AboveFloor where it is.
\* Every rounded operation of the update is monotone, so an estimate that is
\* at least AboveFloor stays so however many iterations follow.
AboveFloorIsStable ==
    \A lr \in 1..MaxRawN : EstUpdate(AboveFloor, 0, lr) = AboveFloor

\* C24: throughout the extraction loop the efficiency estimate, a double, is
\* above 0.01 and at most 1 (it starts at 0.30), and every raw request of the
\* loop is for a positive number of bits.
C24_EstimateFloor ==
    /\ AboveFloorIsStable
    /\ (obs.op = "get_bit_string" /\ frame.caller = "gbs")
       => /\ FloatGeq(frame.est, EFFICIENCY_FLOOR)
          /\ FloatGeq(frame.est, AboveFloor)
          /\ FloatGeq(FloatOfInt(1), frame.est)
          /\ frame.iters = 0 => frame.est = FloatDiv(3, 10)
          /\ pc = "raw_while" => frame.rawN > 0

\* the second request of a call whose first iteration extracted nothing:
\* the estimate is 0.7 * 0.30 + 0.3 * 0.01, which the doubles round to 0.213
C24_Witness ==
    /\ obs.op = "get_bit_string" /\ frame.caller = "gbs"
    /\ pc = "raw_while"
    /\ frame.iters = 2
    /\ frame.est = FloatDiv(213, 1000)
    /\ frame.extracted = <<>>
    /\ frame.nBits = 2
    /\ frame.rawN = 41

\* C25: every get_bit_string call starts its own accounting (raw_used = 0,
\* no output yet, estimate 0.30) whatever earlier calls did, and when no call
\* is running none of those locals exists any more: the output beyond the n
\* bits returned is gone and only the raw-bit cache is left for the next call.
C25_PerCallAccounting ==
    /\ (obs.op = "get_bit_string" /\ pc = "gbs_while" /\ frame.iters = 0)
       => /\ frame.rawUsed = 0
          /\ frame.extracted = <<>>
          /\ frame.est = FloatDiv(3, 10)
    /\ pc = "idle" => frame = NoFrame
    /\ (obs.op = "get_bit_string" /\ obs.useExtractor /\ pc = "idle"
          /\ result.kind = "ok")
       => /\ result.bits = SubSeq(obs.accum, 1, Len(result.bits))
          /\ obs.pending = bitCache

\* a call starting on raw bits an earlier call left in the cache
C25_Witness ==
    /\ obs.op = "get_bit_string" /\ pc = "gbs_while" /\ frame.iters = 0
    /\ obs.n > 0
    /\ obs.cacheAtEntry # <<>>
    /\ frame.extracted = <<>>

\* C26: the diagnostics of get_bit_string(n, True, return_stats=True):
\* raw_bits_used is the number of raw bits the call took out of the buffer
\* (buffered at entry plus appended by the source minus still buffered),
\* final_bits is n, and efficiency is n / raw_bits_used, at most 1/2 for
\* n > 0, and None when no raw bit was used.
C26_Diagnostics ==
    (pc = "idle" /\ obs.op = "get_bit_string" /\ obs.useExtractor
        /\ result.kind = "ok" /\ Len(result.tuple) = 2)
    => LET stats == result.tuple[2]
           taken == Len(obs.cacheAtEntry) + Len(obs.appended) - Len(bitCache)
       IN  /\ stats.raw_bits_used = taken
           /\ stats.final_bits = obs.n
           /\ taken = 0 => stats.efficiency = "None"
           /\ taken # 0 => stats.efficiency = Rat(obs.n, taken)
           /\ obs.n > 0 => (taken >= 2 * obs.n /\ ~RatLess(<<1, 2>>, stats.efficiency))
           /\ obs.n <= 0 => taken = 0

\* a call that needed two iterations and reports both raw requests: 38 raw
\* bits that gave no output, then 41
C26_Witness ==
    /\ pc = "idle" /\ obs.op = "get_bit_string" /\ obs.useExtractor
    /\ result.kind = "ok" /\ Len(result.tuple) = 2
    /\ obs.n = 2
    /\ obs.iters = 2
    /\ result.tuple[2].raw_bits_used = 38 + 41
    /\ Len(result.tuple[1]) = 2

\* C27: over any sequence of generate_qrng_key calls set_provider_as_IBMQ and
\* set_backend_interactive are each invoked at most once, and IBM_INITIALIZED
\* is true once init_ibm_for_crypto has been called, whichever way it went.
C27_InitOnce ==
    /\ kg.provider_calls <= 1
    /\ kg.backend_calls <= 1
    /\ kg.init_calls >= 1 => kg.IBM_INITIALIZED
    /\ ~kg.IBM_INITIALIZED => (kg.provider_calls = 0 /\ kg.backend_calls = 0)

\* two calls with use_ibm: the first initialisation raised, the second was skipped
C27_Witness ==
    /\ kg.init_calls = 2
    /\ kg.paths = {"raised", "skipped"}
    /\ kg.provider_calls = 1
    /\ kg.IBM_INITIALIZED

\* C28: once a backend has been selected through quantum_rng's
\* set_provider_as_IBMQ and set_backend_interactive, the bits of the imported
\* get_bit_string are drawn from that module's state (its service, backend,
\* circuit and cache): no other backend, circuit or cache is set up or read.
C28_DrawnFromSelectedBackend ==
    (pc = "idle" /\ obs.op = "generate_qrng_key" /\ result.kind = "ok" /\ "ok" \in kg.paths)
    => /\ backend # "none" /\ circuit = DEFAULT_QUBITS
       /\ pkgBackend = "none" /\ pkgCircuit = 0 /\ pkgBitCache = <<>>

\* C29: the fixed-length output of get_bit_string(n) is the first n bits of
\* the pairwise transform applied to the in-order concatenation of all raw
\* bits the call consumed: the per-iteration chunks do not change the pairing
\* and drop no raw bit.
C29_ChunkingInvisible ==
    (pc = "idle" /\ obs.op = "get_bit_string" /\ obs.useExtractor
        /\ obs.n > 0 /\ result.kind = "ok")
    => LET all      == obs.cacheAtEntry \o obs.appended
           consumed == SlicePrefix(all, Len(all) - Len(bitCache))
       IN  result.bits = SlicePrefix(von_neumann_extractor(consumed), obs.n)

\* C30: nist_runs_test never divides by zero: on every bitstring, the lengths
\* 0 and 1 and the all-zero and all-one strings that pass the applicability
\* pre-test (those shorter than 16) included, it returns a value, and whenever
\* 2*sqrt(2n)*pi*(1-pi) is 0 (no one or no zero in the string) that value is 0.
C30_RunsNoZeroDivision ==
    /\ fnCall = "nist_runs_test"
        => LET n    == Len(fnIn)
               ones == Cardinality({i \in 1..n : fnIn[i] = 1})
           IN  /\ fnOut.kind = "ok"
               /\ (ones = 0 \/ ones = n) => (fnOut.val = Zero /\ ~fnOut.passed)
               /\ fnOut.val.tag = "erfc" => fnOut.val.den > 0
    /\ \A k \in 0..17, b \in {0, 1} :
          nist_runs_test([i \in 1..k |-> b]) = OutValue(Zero, FALSE)

\* an all-zero string of several bits that passes the applicability pre-test
\* and is stopped by the denominator test
C30_Witness ==
    /\ fnCall = "nist_runs_test"
    /\ Len(fnIn) >= 5 /\ \A i \in 1..Len(fnIn) : fnIn[i] = 0
    /\ ~RunsInapplicable(0, Len(fnIn))
    /\ fnOut = OutValue(Zero, FALSE)

====
